---- MODULE Spec2Model ----
(***************************************************************************)
(* filesdb: the crawl-download-extract-index pipeline of                   *)
(* filesdb/get_files.py (scheduler amain, unit process_versions under the  *)
(* retry wrapper of filesdb/utils.py, introspector process_archive) over   *)
(* the tables of filesdb/database.py, and the sweep of                     *)
(* filesdb/guess_imports.py over the same tables.                          *)
(*                                                                         *)
(* Strings are sequences of one-character strings, so that the prefix,     *)
(* suffix and substring tests of the code are computed, not assumed.       *)
(***************************************************************************)
EXTENDS Integers, Sequences, FiniteSets, TLC

(***************************************************************************)
(* Bounds of the model.                                                    *)
(***************************************************************************)
\* number of projects of the catalogue that have rows in the store
NumProjects == 6
\* number of times a crawler process is launched (main run again)
MaxRuns == 2
\* number of faulty responses (network errors, corrupt bodies) injected
MaxFaults == 3

(***************************************************************************)
(* Program constants.                                                      *)
(***************************************************************************)
CONCURRENT_REQUESTS == 5
\* the argument of @retry(3, logger) on process_versions
Retries == 3
\* the argument of fp.read(4096) in process_file
ChunkSize == 4096
\* the page size defined in get_files.py
PROJECT_CHUNK_SIZE == 500
\* name[:20] in utils.secure_filename
StemLength == 20

\* the longest list of downloads given to the selection on its own
MaxList == 3

\* the largest number of members of an archive introspected on its own
MaxMembers == 3

\* the largest number of non-empty reads a stream answers before its end
MaxReads == 3

\* the largest number of rows of a project_versions table whose rows are
\* listed by the storage in every order
MaxRows == 4

(***************************************************************************)
(* String helpers (str.startswith, str.endswith, `in`, str.index,          *)
(* str.lower, str.replace on one character).                               *)
(***************************************************************************)
StartsWith(s, p) == Len(s) >= Len(p) /\ SubSeq(s, 1, Len(p)) = p

EndsWith(s, x) == Len(s) >= Len(x) /\ SubSeq(s, Len(s) - Len(x) + 1, Len(s)) = x

Contains(s, x) == \E i \in 1..(Len(s) - Len(x) + 1) : SubSeq(s, i, i + Len(x) - 1) = x

\* str.index: the first position of character ch, 0 standing for ValueError
IndexOf(s, ch) ==
    IF \E i \in 1..Len(s) : s[i] = ch
    THEN CHOOSE i \in 1..Len(s) : s[i] = ch /\ \A j \in 1..(i - 1) : s[j] # ch
    ELSE 0

UpperChars == <<"A","B","C","D","E","F","G","H","I","J","K","L","M",
                "N","O","P","Q","R","S","T","U","V","W","X","Y","Z">>

LowerChars == <<"a","b","c","d","e","f","g","h","i","j","k","l","m",
                "n","o","p","q","r","s","t","u","v","w","x","y","z">>

LowerChar(ch) ==
    IF \E i \in 1..26 : UpperChars[i] = ch
    THEN LowerChars[CHOOSE i \in 1..26 : UpperChars[i] = ch]
    ELSE ch

Lower(s) == [i \in 1..Len(s) |-> LowerChar(s[i])]

Replace(s, a, b) == [i \in 1..Len(s) |-> IF s[i] = a THEN b ELSE s[i]]

(***************************************************************************)
(* get_files.py constants.                                                 *)
(***************************************************************************)
PKG_INFO == <<"P","K","G","-","I","N","F","O">>

IGNORED_FILES ==
    { PKG_INFO,
      <<"M","A","N","I","F","E","S","T",".","i","n">>,
      <<"s","e","t","u","p",".","c","f","g">> }

DIST_INFO == <<".","d","i","s","t","-","i","n","f","o">>

EGG_INFO_DIR == <<"E","G","G","-","I","N","F","O">>

EGG_INFO == <<".","e","g","g","-","i","n","f","o">>

WHL == <<".","w","h","l">>

EGG == <<".","e","g","g">>

ZIP == <<".","z","i","p">>

check_top_level(filename, project_name) ==
    StartsWith(Replace(Lower(filename), "-", "_"), Replace(Lower(project_name), "-", "_"))

(***************************************************************************)
(* The seed rows the crawl consumes (tables projects, project_versions,    *)
(* downloads of database.py, filled by get_projects / get_versions) and    *)
(* the archive each download URL serves.  A version is the sequence of its *)
(* numeric release segments; a project is its index in name order.         *)
(***************************************************************************)
Projects == 1..NumProjects

ProjectName(p) == <<LowerChars[p]>>

PY == <<".","p","y">>

TAR == <<".","t","a","r">>

\* rows of project_versions of project p, in primary-key (string) order
ProjectVersions(p) ==
    IF p = 5 THEN << <<1, 10>>, <<1, 9>> >> ELSE << <<1>> >>

\* an archive member: its name, TarInfo.isfile() and TarInfo.isdir() (for
\* a zip entry, a directory is an entry whose name ends with '/')
File(n) == [name |-> n, isfile |-> TRUE, isdir |-> FALSE]

Dir(n) == [name |-> n, isfile |-> FALSE, isdir |-> TRUE]

\* a symbolic link in a tarball: neither isfile() nor isdir()
Link(n) == [name |-> n, isfile |-> FALSE, isdir |-> FALSE]

\* the members of the archives served, in archive order
ZipB == << Dir(<<"b","-","1","/">>), File(<<"b","-","1","/">> \o PKG_INFO),
           File(<<"b","-","1","/","s","e","t","u","p",".","c","f","g">>) >>

TarD == << Dir(<<"d","-","1">>), File(<<"d","-","1","/","a">> \o PY),
           File(<<"x">> \o PY) >>

WheelE == << File(<<"a">> \o PY), File(<<"b">> \o PY),
             File(<<"e">> \o DIST_INFO \o <<"/","M">>) >>

TarE == << File(<<"e","-","1","/","a">> \o PY) >>

Download(n, p, v, t, tag, a) ==
    [name |-> n, project_name |-> ProjectName(p), project_version |-> v,
     type |-> t, python_version |-> tag, archive |-> a]

SOURCE == <<"s","o","u","r","c","e">>

PY3 == <<"p","y","3">>

\* the rows of the downloads table that exist for the whole catalogue
AllDownloads ==
    << Download(<<"b">> \o ZIP, 2, <<1>>, "sdist", SOURCE, ZipB),
       Download(<<"d">> \o TAR, 4, <<1>>, "sdist", SOURCE, TarD),
       Download(<<"e","9">> \o TAR, 5, <<1, 9>>, "sdist", SOURCE, TarE),
       Download(<<"e">> \o TAR, 5, <<1, 10>>, "sdist", SOURCE, TarE),
       Download(<<"e">> \o WHL, 5, <<1, 10>>, "bdist_wheel", PY3, WheelE) >>

IsSeeded(d) == \E p \in Projects : d.project_name = ProjectName(p)

\* the downloads table: the rows of the projects that are in the store
Downloads == SelectSeq(AllDownloads, IsSeeded)

DownloadIds == 1..Len(Downloads)

\* downloads.indexed: NULL, 'yes', or an error code (database.py)
NULL == "NULL"

FailureTags == {"wrong structure", "bad archive", "no files"}

Status == {NULL, "yes"} \cup FailureTags

(***************************************************************************)
(* parse_version and max(versions, key=parse_version): numeric comparison  *)
(* of the release segments, missing segments counting as 0; max returns    *)
(* the first maximal element of the list.                                  *)
(***************************************************************************)
Seg(v, i) == IF i <= Len(v) THEN v[i] ELSE 0

VersionLess(v, w) ==
    LET n == IF Len(v) > Len(w) THEN Len(v) ELSE Len(w)
    IN \E i \in 1..n : Seg(v, i) < Seg(w, i) /\ \A j \in 1..(i - 1) : Seg(v, j) = Seg(w, j)

\* a faulty variant of LatestVersion: the last version of the list
LatestVersionLast(versions) == versions[Len(versions)]

LatestVersion(versions) ==
    LET best == CHOOSE i \in 1..Len(versions) :
                  /\ \A j \in 1..Len(versions) : ~VersionLess(versions[i], versions[j])
                  /\ \A j \in 1..(i - 1) : VersionLess(versions[j], versions[i])
    IN versions[best]

(***************************************************************************)
(* process_versions, "Pick a wheel": the rows are read with the columns    *)
(* name, url, type only, the priority is computed on these dicts, and max  *)
(* returns the first row of maximal priority.                              *)
(***************************************************************************)
\* the ids of the downloads of (project, version), in table order
ListDownloads(project_name, version) ==
    SelectSeq([i \in DownloadIds |-> i],
              LAMBDA i : /\ Downloads[i].project_name = project_name
                         /\ Downloads[i].project_version = version)

\* dict(row) of the select of lines 185-194: name, url and type
DownloadRow(i) == [name |-> Downloads[i].name, url |-> i, type |-> Downloads[i].type]

Priority(download) ==
    IF download.type = "bdist_wheel"
    THEN IF "python_version" \notin DOMAIN download THEN 5
         ELSE IF Contains(download.python_version, <<"p","y","2">>) THEN 6
         ELSE IF Contains(download.python_version, <<"p","y","3">>) THEN 7
         ELSE IF Contains(download.python_version, <<"c","p">>) THEN 1
         ELSE 4
    ELSE IF download.type = "bdist_egg" THEN 3
    ELSE IF download.type = "sdist" THEN 2
    ELSE 0

\* max(downloads, key=priority) over a non-empty list of dicts: the
\* position of the first dict of maximal priority
ArgMax(dicts) ==
    CHOOSE i \in 1..Len(dicts) :
        /\ \A j \in 1..Len(dicts) : Priority(dicts[j]) <= Priority(dicts[i])
        /\ \A j \in 1..(i - 1) : Priority(dicts[j]) < Priority(dicts[i])

\* lines 185-217 over the ids of the rows listed
PickDownload(ids) == ids[ArgMax([j \in 1..Len(ids) |-> DownloadRow(ids[j])])]

(***************************************************************************)
(* process_archive: the container mode, the members it iterates over and   *)
(* what it does with one member.                                           *)
(***************************************************************************)
ArchiveMode(filename) ==
    IF EndsWith(filename, WHL) \/ EndsWith(filename, EGG) THEN "flat"
    ELSE IF EndsWith(filename, ZIP) THEN "zip"
    ELSE "tar"

\* set(arch.namelist()) and {m.name: m for m in arch.getmembers()}.values():
\* one entry per distinct name, at the place of the first and with the
\* value of the last member of that name
Dedup(members) ==
    LET first == SelectSeq([i \in 1..Len(members) |-> i],
                           LAMBDA i : \A j \in 1..(i - 1) : members[j].name # members[i].name)
        last(i) == CHOOSE j \in i..Len(members) :
                      /\ members[j].name = members[i].name
                      /\ \A k \in (j + 1)..Len(members) : members[k].name # members[i].name
    IN [n \in 1..Len(first) |-> members[last(first[n])]]

Skip == [act |-> "skip", name |-> <<>>]

WrongStructure == [act |-> "wrong structure", name |-> <<>>]

Insert(n) == [act |-> "insert", name |-> n]

\* a faulty variant of FlatMember: the test endswith('.dist-info') is missing
FlatMemberNoSuffix(member) ==
    IF \/ Contains(member.name, DIST_INFO \o <<"/">>)
       \/ StartsWith(member.name, EGG_INFO_DIR)
       \/ member.name \in IGNORED_FILES
    THEN [act |-> "skip", name |-> <<>>]
    ELSE [act |-> "insert", name |-> member.name]

\* lines 75-85
FlatMember(member) ==
    IF \/ Contains(member.name, DIST_INFO \o <<"/">>)
       \/ StartsWith(member.name, EGG_INFO_DIR)
       \/ EndsWith(member.name, DIST_INFO)
       \/ member.name \in IGNORED_FILES
    THEN Skip
    ELSE Insert(member.name)

\* lines 88-118
ZipMember(member, project_name) ==
    IF EndsWith(member.name, <<"/">>) THEN Skip
    ELSE IF ~check_top_level(member.name, project_name) THEN WrongStructure
    ELSE IF \/ Contains(member.name, EGG_INFO \o <<"/">>)
            \/ EndsWith(member.name, EGG_INFO)
            \/ member.name \in IGNORED_FILES
    THEN Skip
    ELSE IF IndexOf(member.name, "/") = 0 THEN WrongStructure
    ELSE LET name == SubSeq(member.name, IndexOf(member.name, "/") + 1, Len(member.name))
         IN IF name \in IGNORED_FILES THEN Skip ELSE Insert(name)

\* a faulty variant of TarMember: the name is not compared with the ignored
\* file names after the top-level directory is removed
TarMemberKeepIgnored(member, project_name) ==
    IF ~member.isfile THEN Skip
    ELSE IF ~check_top_level(member.name, project_name) THEN WrongStructure
    ELSE IF \/ Contains(member.name, EGG_INFO \o <<"/">>)
            \/ EndsWith(member.name, EGG_INFO)
            \/ member.name = PKG_INFO
            \/ member.name \in IGNORED_FILES
    THEN Skip
    ELSE IF IndexOf(member.name, "/") = 0 THEN WrongStructure
    ELSE Insert(SubSeq(member.name, IndexOf(member.name, "/") + 1, Len(member.name)))

\* lines 121-153
TarMember(member, project_name) ==
    IF ~member.isfile THEN Skip
    ELSE IF ~check_top_level(member.name, project_name) THEN WrongStructure
    ELSE IF \/ Contains(member.name, EGG_INFO \o <<"/">>)
            \/ EndsWith(member.name, EGG_INFO)
            \/ member.name = PKG_INFO
            \/ member.name \in IGNORED_FILES
    THEN Skip
    ELSE IF IndexOf(member.name, "/") = 0 THEN WrongStructure
    ELSE LET name == SubSeq(member.name, IndexOf(member.name, "/") + 1, Len(member.name))
         IN IF name \in IGNORED_FILES THEN Skip ELSE Insert(name)

MemberStep(mode, member, project_name) ==
    IF mode = "flat" THEN FlatMember(member)
    ELSE IF mode = "zip" THEN ZipMember(member, project_name)
    ELSE TarMember(member, project_name)

\* a faulty variant of ArchiveResult: the count of inserted rows is not
\* looked at
ArchiveResultAlwaysYes(inserted) == "yes"

\* lines 155-158
ArchiveResult(inserted) == IF inserted = 0 THEN "no files" ELSE "yes"

(***************************************************************************)
(* What a download can deliver: the archive, or bytes that make the        *)
(* container library raise when the archive is opened (fault "open") or    *)
(* when the member at position `at` is read by process_file (fault         *)
(* "read").  zipfile raises BadZipFile or zlib.error, tarfile raises       *)
(* TarError, EOFError (gzip) or lzma.LZMAError.                            *)
(***************************************************************************)
NoFault == [fault |-> "none", at |-> 0, err |-> ""]

OpenErrors(mode) ==
    IF mode = "tar" THEN {"tarfile.TarError", "EOFError", "lzma.LZMAError"}
    ELSE {"zipfile.BadZipFile"}

ReadErrors(mode) ==
    IF mode = "tar" THEN {"tarfile.TarError"}
    ELSE {"zipfile.BadZipFile", "zlib.error"}

DecodeErrors ==
    {"tarfile.TarError", "zipfile.BadZipFile", "EOFError", "zlib.error", "lzma.LZMAError"}

Served(d) ==
    LET mode == ArchiveMode(Downloads[d].name)
    IN {NoFault}
       \cup {[fault |-> "open", at |-> 0, err |-> e] : e \in OpenErrors(mode)}
       \cup {[fault |-> "read", at |-> k, err |-> e] :
                k \in 1..Len(Downloads[d].archive), e \in ReadErrors(mode)}

\* the except clause of lines 237-240
CaughtErrors == {"tarfile.TarError", "zipfile.BadZipFile", "EOFError"}

(***************************************************************************)
(* process_archive as a function of what it reads: the members in the      *)
(* order of iteration, the fault of the body and the rows already in the   *)
(* files table.  It ends by returning a result or by raising, with the     *)
(* rows it has inserted so far staged in the open transaction.             *)
(***************************************************************************)
Returned(result, rows) == [result |-> result, exc |-> "", rows |-> rows]

Raised(exc, rows) == [result |-> "", exc |-> exc, rows |-> rows]

\* the primary key (download_name, name) of the files table
FileRow(d, name) == [download_name |-> d, name |-> name]

\* the loop over the members of an archive in the mode `mode`; bad is the
\* set (empty or one element) of [name, err]: the member whose read raises
RECURSIVE Loop(_, _, _, _, _, _, _)
Loop(order, mode, d, project_name, bad, committed, rows) ==
    IF order = <<>> THEN Returned(ArchiveResult(Cardinality(rows)), rows)
    ELSE LET member == Head(order)
             step == MemberStep(mode, member, project_name)
         IN IF step.act = "skip"
            THEN Loop(Tail(order), mode, d, project_name, bad, committed, rows)
            ELSE IF step.act = "wrong structure"
            THEN Returned("wrong structure", rows)
            ELSE IF \E b \in bad : b.name = member.name
            THEN Raised((CHOOSE b \in bad : b.name = member.name).err, rows)
            ELSE IF FileRow(d, step.name) \in committed \cup rows
            THEN Raised("sqlalchemy.IntegrityError", rows)
            ELSE Loop(Tail(order), mode, d, project_name, bad, committed,
                      rows \cup {FileRow(d, step.name)})

\* the member of the body of download d that a read fault hits
BadMembers(d, fault) ==
    IF fault.fault = "read"
    THEN {[name |-> Downloads[d].archive[fault.at].name, err |-> fault.err]}
    ELSE {}

Members(order, d, project_name, fault, committed, rows) ==
    Loop(order, ArchiveMode(Downloads[d].name), d, project_name,
         BadMembers(d, fault), committed, rows)

process_archive(order, d, project_name, fault, committed) ==
    IF fault.fault = "open" THEN Raised(fault.err, {})
    ELSE Members(order, d, project_name, fault, committed, {})

\* the orders in which the members can be iterated: any order of the set
\* of names for the zip modes, the archive order for a tarball
OrdersOf(mode, archive) ==
    LET members == Dedup(archive)
        n == Len(members)
    IN IF mode = "tar" THEN {members}
       ELSE {[i \in 1..n |-> members[perm[i]]] :
                perm \in {f \in [1..n -> 1..n] : \A i, j \in 1..n : f[i] = f[j] => i = j}}

Orders(d) == OrdersOf(ArchiveMode(Downloads[d].name), Downloads[d].archive)

\* lines 235-242: the decode errors that become the result 'bad archive'
Introspect(outcome) ==
    IF outcome.exc \in CaughtErrors THEN Returned("bad archive", outcome.rows)
    ELSE outcome

\* a faulty variant of RowsAfterResult: the failed introspection is not rolled back
RowsKept(result, rows) == rows

\* lines 244-250: on a result other than 'yes' the transaction is rolled
\* back and a new one begun
RowsAfterResult(result, rows) == IF result # "yes" THEN {} ELSE rows

\* a faulty variant of CommittedRows: the rows staged are committed when an
\* exception leaves the transaction
CommittedRowsOnException(outcome) ==
    IF outcome.exc # "" THEN outcome.rows ELSE RowsAfterResult(outcome.result, outcome.rows)

\* a faulty variant of CommittedRows: each insert is committed when it is executed
CommittedRowsAutocommit(outcome) == outcome.rows

\* the rows the unit commits: an exception leaves the ExitStack, which
\* rolls the transaction back; otherwise the transaction is committed
CommittedRows(outcome) ==
    IF outcome.exc # "" THEN {} ELSE RowsAfterResult(outcome.result, outcome.rows)

\* the rows an introspection of download d can insert
RowsOf(d) ==
    {FileRow(d, MemberStep(ArchiveMode(Downloads[d].name), Downloads[d].archive[i],
                           Downloads[d].project_name).name) :
        i \in {j \in 1..Len(Downloads[d].archive) :
                  MemberStep(ArchiveMode(Downloads[d].name), Downloads[d].archive[j],
                             Downloads[d].project_name).act = "insert"}}

\* what lines 235-242 can end with for download d when the files table
\* holds the rows `committed` of d, over the bodies the download can
\* deliver and the orders of iteration
Outcomes(d, committed) ==
    {[faulty |-> content # NoFault,
      outcome |-> Introspect(process_archive(order, d, Downloads[d].project_name,
                                             content, committed))] :
        content \in Served(d), order \in Orders(d)}

\* Outcomes, computed once
OutcomeTable ==
    UNION {{[download |-> d, committed |-> committed,
             outcomes |-> Outcomes(d, committed)] : committed \in SUBSET RowsOf(d)} :
           d \in DownloadIds}

OutcomesOf(d, committed) ==
    (CHOOSE e \in {x \in OutcomeTable : x.download = d} : e.committed = committed).outcomes

(***************************************************************************)
(* State.                                                                  *)
(*   indexed  downloads.indexed of every download row (committed)          *)
(*   files    the committed rows of the files table                        *)
(*   sched    per crawler process, the state of amain                      *)
(*   unit     per crawler and project, the task process_versions           *)
(*   faults   number of faulty responses delivered so far                  *)
(*   tmpdirs  the temporary directories that exist, each made by one call  *)
(*            of process_versions (owner, attempt)                         *)
(*   probe    the input and the output of a function applied on its own    *)
(*            (selection of a download, introspection of an archive,       *)
(*            hashing of a stream, a response, the guess of import names,  *)
(*            the iteration over the versions, a file name)                *)
(*   imports  the committed rows of the python_imports table               *)
(*   guesser  the state of the process guess_imports.main                  *)
(* A task is suspended only in the download (the code before and after it  *)
(* has no await), so a transaction is never open between two steps.        *)
(***************************************************************************)
VARIABLES indexed, files, sched, unit, faults, tmpdirs, probe, imports, guesser

vars == <<indexed, files, sched, unit, faults, tmpdirs, probe, imports, guesser>>

Crawlers == {1, 2}

Tasks == Crawlers \X Projects

\* attempt: the call of process_versions the wrapper is in; logged: the
\* warnings the wrapper has logged; staged: the rows process_archive had
\* inserted when it ended
Idle ==
    [pc |-> "idle", attempt |-> 0, logged |-> 0, download |-> 0, staged |-> 0,
     result |-> "", exc |-> ""]

\* the task made by asyncio.ensure_future, not yet run by the loop
Ready == [Idle EXCEPT !.pc = "ready"]

\* the task has been discarded by amain and its result taken
Polled == [Idle EXCEPT !.pc = "polled"]

\* the coroutine has returned (exc = "") or raised exc
Done(u, result, exc) == [u EXCEPT !.pc = "done", !.result = result, !.exc = exc]

FilesOf(d) == {r \in files : r.download_name = d}

(***************************************************************************)
(* process_versions up to its first suspension (lines 163-223): the        *)
(* latest version, the idempotency check, the list of downloads and the    *)
(* choice of the download to fetch.                                        *)
(***************************************************************************)
\* a faulty variant of IsIndexed: the legacy check, "some download of the version
\* has rows in files"
IsIndexedByFiles(project_name, version) ==
    \E d \in DownloadIds :
        /\ Downloads[d].project_name = project_name
        /\ Downloads[d].project_version = version
        /\ FilesOf(d) # {}

\* a faulty variant of IsIndexed: only a successful indexing counts
IsIndexedYesOnly(project_name, version) ==
    \E d \in DownloadIds :
        /\ Downloads[d].project_name = project_name
        /\ Downloads[d].project_version = version
        /\ indexed[d] = "yes"

IsIndexed(project_name, version) ==
    \E d \in DownloadIds :
        /\ Downloads[d].project_name = project_name
        /\ Downloads[d].project_version = version
        /\ indexed[d] # NULL

BeginAttempt(p, attempt, logged) ==
    LET latest_version == LatestVersion(ProjectVersions(p))
        downloads == ListDownloads(ProjectName(p), latest_version)
        u == [Idle EXCEPT !.attempt = attempt, !.logged = logged]
    IN IF IsIndexed(ProjectName(p), latest_version) THEN Done(u, "skipped", "")
       ELSE IF downloads = <<>> THEN Done(u, "no downloads", "")
       ELSE [u EXCEPT !.pc = "download", !.download = PickDownload(downloads)]

(***************************************************************************)
(* utils.retry: the wrapper catches the exception of each of the first     *)
(* retries - 1 attempts, logs it, sleeps and calls the function again; the *)
(* call after the loop is not guarded.  The next call runs at once up to   *)
(* its first suspension.                                                   *)
(***************************************************************************)
\* a faulty variant of AfterException: the wrapper awaits the delay, so the
\* task is suspended between two attempts
AfterExceptionAwaitSleep(p, u, e) ==
    IF u.attempt < Retries
    THEN [u EXCEPT !.pc = "sleep", !.logged = u.logged + 1]
    ELSE Done(u, "", e)

\* a faulty variant of AfterException: the wrapper retries without a bound
AfterExceptionUnbounded(p, u, e) == BeginAttempt(p, u.attempt + 1, u.logged + 1)

AfterException(p, u, e) ==
    IF u.attempt < Retries
    THEN BeginAttempt(p, u.attempt + 1, u.logged + 1)
    ELSE Done(u, "", e)

\* line 219: tempfile.TemporaryDirectory makes a new directory when the
\* call reaches the download
MkTmpdir(dirs, t, u) ==
    IF u.pc = "download" THEN dirs \cup {[owner |-> t, attempt |-> u.attempt]} ELSE dirs

\* a faulty variant of RemoveTmpdir: the directory is removed only when the
\* block is left without an exception
RemoveTmpdirOnReturn(dirs, t, exc) ==
    IF exc = "" THEN {x \in dirs : x.owner # t} ELSE dirs

\* the with block of line 219 is left (return or exception): the
\* directory of the call is removed
RemoveTmpdir(dirs, t, exc) == {x \in dirs : x.owner # t}

\* the loop runs the tasks while amain is suspended in asyncio.wait
Runs(t) == sched[t[1]].pc = "wait"

\* the first step of the task: the first call of process_versions
RunTask(t) ==
    /\ Runs(t)
    /\ unit[t].pc = "ready"
    /\ unit' = [unit EXCEPT ![t] = BeginAttempt(t[2], 1, 0)]
    /\ tmpdirs' = MkTmpdir(tmpdirs, t, unit'[t])
    /\ UNCHANGED <<indexed, files, sched, faults, probe, imports, guesser>>

\* http_session.get or iter_chunks raises (timeout, connection reset)
DownloadError(t) ==
    /\ Runs(t)
    /\ unit[t].pc = "download"
    /\ faults < MaxFaults
    /\ faults' = faults + 1
    /\ unit' = [unit EXCEPT ![t] = AfterException(t[2], unit[t], "aiohttp.ClientError")]
    /\ tmpdirs' = MkTmpdir(RemoveTmpdir(tmpdirs, t, "aiohttp.ClientError"), t, unit'[t])
    /\ UNCHANGED <<indexed, files, sched, probe, imports, guesser>>

\* lines 223-258: the body is written to the temporary file whatever the
\* status of the response; the archive is introspected in a transaction;
\* the status is updated and the transaction committed, or the exception
\* of process_archive or of the insert goes to the wrapper
DownloadDone(t) ==
    /\ Runs(t)
    /\ unit[t].pc = "download"
    /\ LET d == unit[t].download
       IN \E o \in OutcomesOf(d, FilesOf(d)) :
            LET outcome == o.outcome
                u == [unit[t] EXCEPT !.staged = Cardinality(outcome.rows)]
            IN /\ o.faulty => faults < MaxFaults
               /\ faults' = IF o.faulty THEN faults + 1 ELSE faults
               /\ files' = files \cup CommittedRows(outcome)
               /\ IF outcome.exc # ""
                  THEN /\ unit' = [unit EXCEPT ![t] = AfterException(t[2], u, outcome.exc)]
                       /\ UNCHANGED indexed
                  ELSE /\ unit' = [unit EXCEPT ![t] = Done(u, outcome.result, "")]
                       /\ indexed' = [i \in DownloadIds |->
                             IF /\ Downloads[i].project_name = ProjectName(t[2])
                                /\ Downloads[i].name = Downloads[d].name
                             THEN outcome.result
                             ELSE indexed[i]]
               /\ tmpdirs' = MkTmpdir(RemoveTmpdir(tmpdirs, t, outcome.exc), t, unit'[t])
    /\ UNCHANGED <<sched, probe, imports, guesser>>

(***************************************************************************)
(* amain: the scheduler.  start_from is the index of the first project of  *)
(* the run (1 when the command line gives none).                           *)
(***************************************************************************)
\* iter_project_versions: one pair per project that has version rows, from
\* start_from on, in project-name order (what the generator yields when
\* the storage lists the rows in key order)
Backlog(start_from) ==
    SelectSeq([p \in Projects |-> p],
              LAMBDA p : p >= start_from /\ ProjectVersions(p) # <<>>)

Min(a, b) == IF a < b THEN a ELSE b

\* a faulty variant of Islice: one item too many is taken
IsliceOneMore(start_from, next, n) == next..Min(next + n, Len(Backlog(start_from)))

\* itertools.islice(projects, n): the positions it takes from the iterator
Islice(start_from, next, n) == next..Min(next + n - 1, Len(Backlog(start_from)))

\* a faulty variant of Refill: no task is admitted after a poll
RefillNone(len_tasks) == 0

\* line 346: the number of tasks admitted after a poll
Refill(len_tasks) == CONCURRENT_REQUESTS - len_tasks

Off == [pc |-> "off", start_from |-> 1, next |-> 1, tasks |-> {}, done_projects |-> 0,
        runs |-> 0, exc |-> ""]

\* main(start_from) has been launched and amain has not run yet
Launched(start_from, runs) ==
    [Off EXCEPT !.pc = "start", !.start_from = start_from, !.runs = runs]

\* lines 296-328: count the projects, make the iterator, start N tasks
Start(c) ==
    /\ sched[c].pc = "start"
    /\ LET sf == sched[c].start_from
           taken == Islice(sf, 1, CONCURRENT_REQUESTS)
           tasks == {Backlog(sf)[i] : i \in taken}
       IN /\ sched' = [sched EXCEPT
                 ![c].pc = IF tasks = {} THEN "returned" ELSE "wait",
                 ![c].tasks = tasks,
                 ![c].next = Cardinality(taken) + 1,
                 ![c].done_projects = Cardinality({p \in Projects : p < sf})]
          /\ unit' = [t \in Tasks |->
                        IF t[1] = c /\ t[2] \in tasks THEN Ready ELSE unit[t]]
    /\ UNCHANGED <<indexed, files, faults, tmpdirs, probe, imports, guesser>>

\* a faulty variant of Failed: the exception of a task is swallowed
FailedNone(c, done) == {}

\* line 340: the done tasks for which task.result() raises
Failed(c, done) == {p \in done : unit[<<c, p>>].exc # ""}

\* lines 330-347: asyncio.wait returns the tasks that are done; each is
\* discarded and its result taken, which raises the exception of a task
\* that raised; then new tasks are admitted
Poll(c) ==
    /\ sched[c].pc = "wait"
    /\ LET sc == sched[c]
           done == {p \in sc.tasks : unit[<<c, p>>].pc = "done"}
           failed == Failed(c, done)
       IN /\ done # {}
          /\ IF failed = {}
             THEN LET left == sc.tasks \ done
                      taken == Islice(sc.start_from, sc.next, Refill(Cardinality(left)))
                      new == {Backlog(sc.start_from)[i] : i \in taken}
                  IN /\ sched' = [sched EXCEPT
                            ![c].pc = IF left \cup new = {} THEN "returned" ELSE "wait",
                            ![c].tasks = left \cup new,
                            ![c].next = sc.next + Cardinality(taken),
                            ![c].done_projects = sc.done_projects + Cardinality(done)]
                     /\ unit' = [t \in Tasks |->
                                   IF t[1] = c /\ t[2] \in new THEN Ready
                                   ELSE IF t[1] = c /\ t[2] \in done THEN Polled
                                   ELSE unit[t]]
             ELSE \E f \in failed : \E before \in SUBSET (done \ failed) :
                     /\ sched' = [sched EXCEPT
                            ![c].pc = "raised",
                            ![c].exc = unit[<<c, f>>].exc,
                            ![c].tasks = sc.tasks \ (before \cup {f}),
                            ![c].done_projects = sc.done_projects + Cardinality(before)]
                     /\ unit' = [t \in Tasks |->
                                   IF t[1] = c /\ t[2] \in before \cup {f} THEN Polled
                                   ELSE unit[t]]
    /\ UNCHANGED <<indexed, files, faults, tmpdirs, probe, imports, guesser>>

\* the crawler is run again (the crawl is incremental): a new process, with
\* the same start_from; the tasks of the previous process are gone, and
\* the directories of its pending calls were removed when it exited (the
\* finalizer of TemporaryDirectory)
Rerun(c) ==
    /\ sched[c].pc \in {"returned", "raised"}
    /\ sched[c].runs < MaxRuns
    /\ sched' = [sched EXCEPT ![c] = Launched(sched[c].start_from, sched[c].runs + 1)]
    /\ unit' = [t \in Tasks |-> IF t[1] = c THEN Idle ELSE unit[t]]
    /\ tmpdirs' = {x \in tmpdirs : x.owner[1] # c}
    /\ UNCHANGED <<indexed, files, faults, probe, imports, guesser>>

(***************************************************************************)
(* Specifications.  Spec: one crawler process, launched without            *)
(* start_from, run up to MaxRuns times.  SpecTwoCrawlers: two crawler      *)
(* processes on the same store, both launched with start_from at the last  *)
(* but one project.                                                        *)
(***************************************************************************)
\* guess_imports.main is not running: sweeps counts its runs so far, next
\* is the position in the iteration over the projects, seen the projects
\* visited to the end whose rows in downloads and files have not changed
\* since, each with the message logged by its last visit, txn the
\* transaction that is open
GuesserOff == [pc |-> "off", sweeps |-> 0, next |-> 0, seen |-> {}, txn |-> <<>>]

\* no function is applied on its own
NoProbe == [kind |-> "none"]

InitStore ==
    /\ indexed = [d \in DownloadIds |-> NULL]
    /\ files = {}
    /\ unit = [t \in Tasks |-> Idle]
    /\ faults = 0
    /\ tmpdirs = {}
    /\ probe = NoProbe
    /\ imports = {}
    /\ guesser = GuesserOff

Init ==
    /\ InitStore
    /\ sched = [c \in Crawlers |-> IF c = 1 THEN Launched(1, 1) ELSE Off]

InitTwoCrawlers ==
    /\ InitStore
    /\ sched = [c \in Crawlers |-> Launched(NumProjects - 1, 1)]

Next ==
    \/ \E c \in Crawlers : Start(c)
    \/ \E c \in Crawlers : Poll(c)
    \/ \E c \in Crawlers : Rerun(c)
    \/ \E t \in Tasks : RunTask(t)
    \/ \E t \in Tasks : DownloadError(t)
    \/ \E t \in Tasks : DownloadDone(t)

Spec == Init /\ [][Next]_vars

(***************************************************************************)
(* The selection of a download, applied on its own to the lists of at most *)
(* MaxList rows of the downloads table of one project version.  A row has  *)
(* a declared type and a declared Python tag (NoTag: python_version is     *)
(* NULL).                                                                  *)
(***************************************************************************)
NoTag == <<>>

Tags ==
    {NoTag, PY3, <<"p","y","2">>, <<"p","y","2",".","p","y","3">>,
     <<"c","p","3","7">>, <<"j","y">>}

RowPool ==
    {[type |-> "bdist_wheel", python_version |-> tag] : tag \in Tags}
    \cup {[type |-> ty, python_version |-> SOURCE] :
             ty \in {"bdist_egg", "sdist", "bdist_wininst"}}

RowLists == UNION {[1..n -> RowPool] : n \in 1..MaxList}

\* dict(row) of lines 185-194 for the row at position i of a listing
ListedRow(rows, i) == [name |-> i, url |-> i, type |-> rows[i].type]

\* lines 185-217 applied to a listing
Select ==
    /\ probe = NoProbe
    /\ \E rows \in RowLists :
          probe' = [kind |-> "select", rows |-> rows,
                    picked |-> ArgMax([i \in 1..Len(rows) |-> ListedRow(rows, i)])]
    /\ UNCHANGED <<indexed, files, sched, unit, faults, tmpdirs, imports, guesser>>

NextSelector == Select

SpecSelector == Init /\ [][NextSelector]_vars

(***************************************************************************)
(* process_archive, applied on its own to the archives of at most          *)
(* MaxMembers members drawn from a pool of member names, for a project     *)
(* named a-b, with the transaction handling of process_versions (lines     *)
(* 235-250) and an empty files table.                                      *)
(***************************************************************************)
ProbeProject == <<"a","-","b">>

ProbeFilenames == {<<"x">> \o WHL, <<"x">> \o ZIP, <<"x">> \o TAR}

SdistFiles ==
    {File(<<"a","-","b","-","1","/","x",".","p","y">>),
     File(<<"A","_","b","-","1","/","s","e","t","u","p",".","c","f","g">>),
     File(<<"a","-","b","-","1","/","a",".","e","g","g","-","i","n","f","o","/","P">>),
     File(<<"a","-","b","-","2","/","x",".","p","y">>),
     File(<<"z","/","x",".","p","y">>),
     File(<<"a","-","b",".","p","y">>)}

MemberPool(mode) ==
    IF mode = "flat"
    THEN {File(<<"x",".","p","y">>), File(<<"p","/","y",".","p","y">>),
          File(<<"a",".","d","i","s","t","-","i","n","f","o","/","M">>), File(<<"a",".","d","i","s","t","-","i","n","f","o">>),
          File(<<"E","G","G","-","I","N","F","O","/","P">>), File(<<"s","e","t","u","p",".","c","f","g">>),
          Dir(<<"p","/">>)}
    ELSE IF mode = "zip"
    THEN SdistFiles \cup {Dir(<<"a","-","b","-","1","/">>)}
    ELSE SdistFiles \cup {Dir(<<"a","-","b","-","1">>), Link(<<"a","-","b","-","1","/","l">>)}

Archives(mode) == UNION {[1..n -> MemberPool(mode)] : n \in 0..MaxMembers}

\* process_archive on the file downloaded, inside the transaction of
\* process_versions: the result, the exception and the rows committed
IntrospectArchive ==
    /\ probe = NoProbe
    /\ \E filename \in ProbeFilenames :
         \E archive \in Archives(ArchiveMode(filename)) :
           \E order \in OrdersOf(ArchiveMode(filename), archive) :
             LET outcome == Introspect(Loop(order, ArchiveMode(filename), 0,
                                            ProbeProject, {}, {}, {}))
             IN probe' = [kind |-> "archive", filename |-> filename,
                          members |-> archive, result |-> outcome.result,
                          exc |-> outcome.exc, rows |-> CommittedRows(outcome)]
    /\ UNCHANGED <<indexed, files, sched, unit, faults, tmpdirs, imports, guesser>>

NextArchive == IntrospectArchive

SpecArchive == Init /\ [][NextArchive]_vars

(***************************************************************************)
(* process_file, applied on its own to a readable stream.  A stream is the *)
(* sequence of the lengths of the non-empty chunks its successive          *)
(* read(4096) calls return; after them every read returns b''.  A digest   *)
(* is named by the number of leading bytes of the stream that were fed to  *)
(* update(), which is all that update() of consecutive chunks depends on.  *)
(***************************************************************************)
\* lines 48-55, entered with chunk = the answer of read number i
RECURSIVE HashLoop(_, _, _)
HashLoop(reads, i, size) ==
    LET chunk == IF i <= Len(reads) THEN reads[i] ELSE 0
    IN IF chunk = 0
       THEN size
       ELSE IF chunk # ChunkSize
            THEN size + chunk
            ELSE HashLoop(reads, i + 1, size + chunk)

\* the values of the row inserted by process_file
process_file(reads) ==
    LET size == HashLoop(reads, 1, 0)
    IN [size_bytes |-> size,
        hash_sha1 |-> [algorithm |-> "sha1", fed |-> size],
        hash_sha256 |-> [algorithm |-> "sha256", fed |-> size]]

HashStream ==
    /\ probe = NoProbe
    /\ \E n \in 0..MaxReads :
         \E reads \in [1..n -> {1, 100, 2048, ChunkSize - 1, ChunkSize}] :
            probe' = [kind |-> "hash", reads |-> reads, row |-> process_file(reads)]
    /\ UNCHANGED <<indexed, files, sched, unit, faults, tmpdirs, imports, guesser>>

SpecHasher == Init /\ [][HashStream]_vars

(***************************************************************************)
(* One call of process_versions from the download on (lines 219-258), on   *)
(* its own: the response has a status and a body; the status is compared   *)
(* with 200 for a warning only (lines 226-227), the body is written to the *)
(* temporary file and introspected.                                        *)
(***************************************************************************)
GetResponse ==
    /\ probe = NoProbe
    /\ \E d \in DownloadIds, status \in {200, 404, 500, 503} :
         \E content \in Served(d), order \in Orders(d) :
            LET outcome == Introspect(process_archive(order, d, Downloads[d].project_name,
                                                      content, {}))
            IN probe' = [kind |-> "response", download |-> d, status |-> status,
                         content |-> content, exc |-> outcome.exc,
                         rows |-> CommittedRows(outcome),
                         indexed |-> IF outcome.exc = "" THEN outcome.result ELSE NULL]
    /\ UNCHANGED <<indexed, files, sched, unit, faults, tmpdirs, imports, guesser>>

SpecResponse == Init /\ [][GetResponse]_vars

(***************************************************************************)
(* guess_imports.process_versions, "Guess Python package name" (lines      *)
(* 75-86): the import names deduced from the names of the files of a       *)
(* download.                                                               *)
(***************************************************************************)
\* a faulty variant of GuessName: setup.py and the test modules are not left out
GuessNameNoExclusion(filename) ==
    IF EndsWith(filename, PY)
    THEN IF Contains(filename, <<"/">>)
         THEN {SubSeq(filename, 1, IndexOf(filename, "/") - 1)}
         ELSE {SubSeq(filename, 1, Len(filename) - 3)}
    ELSE {}

\* the body of the loop for one file: the name added to import_names, if any
GuessName(filename) ==
    IF EndsWith(filename, PY) /\ filename \notin
            {<<"t","e","s","t",".","p","y">>, <<"t","e","s","t","s",".","p","y">>, <<"s","e","t","u","p",".","p","y">>}
    THEN IF Contains(filename, <<"/">>)
         THEN {SubSeq(filename, 1, IndexOf(filename, "/") - 1)}
         ELSE {SubSeq(filename, 1, Len(filename) - 3)}
    ELSE {}

import_names(filenames) == UNION {GuessName(filename) : filename \in filenames}

\* lines 75-86 applied on their own to the names of the files of a download
GuessNames ==
    /\ probe = NoProbe
    /\ \E filenames \in SUBSET
            {<<"m","y","p","k","g","/","_","_","i","n","i","t","_","_",".","p","y">>,
             <<"m","y","p","k","g","/","u","t","i","l",".","p","y">>,
             <<"s","e","t","u","p",".","p","y">>,
             <<"t","e","s","t","s",".","p","y">>,
             <<"t","e","s","t",".","p","y">>,
             <<"e",".","p","y">>,
             <<".","p","y">>,
             <<"R","E","A","D","M","E">>,
             <<"a","/","s","e","t","u","p",".","p","y">>} :
          probe' = [kind |-> "guess", files |-> filenames,
                    import_names |-> import_names(filenames)]
    /\ UNCHANGED <<indexed, files, sched, unit, faults, tmpdirs, imports, guesser>>

SpecGuess == Init /\ [][GuessNames]_vars

(***************************************************************************)
(* guess_imports: main iterates over the projects and calls                *)
(* process_versions for each; process_versions reads python_imports,       *)
(* downloads and files, then deletes the rows of the project and inserts   *)
(* the new ones in one transaction.  The crawler commits the indexing of   *)
(* downloads while the guesser runs.  The committed table changes when the *)
(* transaction is committed.                                               *)
(***************************************************************************)
\* the largest number of runs of guess_imports.main
MaxSweeps == 2

ImportsOf(rows, p) == {r \in rows : r.project_name = ProjectName(p)}

\* a faulty variant of prev_import_names: the row of an empty guess is not counted
PrevImportNamesNoSentinel(p) ==
    {r \in ImportsOf(imports, p) :
        /\ r.deduced_from_project_version = LatestVersion(ProjectVersions(p))
        /\ r.import_path # <<>>}

\* lines 37-45: the rows deduced from the latest version of the project
prev_import_names(p) ==
    {r \in ImportsOf(imports, p) :
        r.deduced_from_project_version = LatestVersion(ProjectVersions(p))}

\* a faulty variant of FindDownload: a download of any version of the project
FindDownloadAnyVersion(p) ==
    {d \in DownloadIds :
        /\ Downloads[d].project_name = ProjectName(p)
        /\ indexed[d] = "yes"}

\* lines 59-64: the rows fetchone() can return
FindDownload(p) ==
    {d \in DownloadIds :
        /\ Downloads[d].project_name = ProjectName(p)
        /\ Downloads[d].project_version = LatestVersion(ProjectVersions(p))
        /\ indexed[d] = "yes"}

\* lines 69-86 and 102-131: the rows inserted for the project, deduced from
\* the rows of download d in the files table `rows`
GuessRows(p, version, d, rows) ==
    LET names == import_names({f.name : f \in {r \in rows : r.download_name = d}})
    IN {[project_name |-> ProjectName(p), deduced_from_project_version |-> version,
         deduced_from_download_name |-> d, import_path |-> name] :
           name \in IF names # {} THEN names ELSE {<<>>}}

\* a faulty variant of AfterDelete: the delete is committed when it is executed
AfterDeleteAutocommit(rows, p) == rows \ ImportsOf(rows, p)

\* lines 97-101: the committed table after the delete has been executed in
\* the transaction begun by db.begin()
AfterDelete(rows, p) == rows

\* the loop of main goes to the next project, or main returns
NextProject(g, p, how) ==
    LET seen == {x \in g.seen : x.project # p} \cup {[project |-> p, how |-> how]}
    IN IF g.next < Len(Backlog(1))
       THEN [g EXCEPT !.next = @ + 1, !.seen = seen, !.txn = <<>>, !.pc = "sweep"]
       ELSE [g EXCEPT !.next = 0, !.seen = seen, !.txn = <<>>, !.pc = "off"]

\* main is run
GuesserStart ==
    /\ guesser.pc \in {"off", "raised"}
    /\ guesser.sweeps < MaxSweeps
    /\ guesser' = [guesser EXCEPT !.pc = "sweep", !.sweeps = @ + 1, !.next = 1]
    /\ UNCHANGED <<indexed, files, sched, unit, faults, tmpdirs, probe, imports>>

\* process_versions up to the delete of line 98
GuessVisit ==
    /\ guesser.pc = "sweep"
    /\ LET p == Backlog(1)[guesser.next]
       IN IF prev_import_names(p) # {}
          THEN /\ guesser' = NextProject(guesser, p, "is guessed, skipping")
               /\ UNCHANGED imports
          ELSE IF FindDownload(p) = {}
          THEN /\ guesser' = NextProject(guesser, p, "can't guess, no files")
               /\ UNCHANGED imports
          ELSE \E d \in FindDownload(p) :
                  /\ guesser' = [guesser EXCEPT !.pc = "txn",
                        !.txn = [project |-> p,
                                 rows |-> GuessRows(p, LatestVersion(ProjectVersions(p)),
                                                    d, files)]]
                  /\ imports' = AfterDelete(imports, p)
    /\ UNCHANGED <<indexed, files, sched, unit, faults, tmpdirs, probe>>

\* the insert is executed and the transaction committed
GuessCommit ==
    /\ guesser.pc = "txn"
    /\ imports' = (imports \ ImportsOf(imports, guesser.txn.project)) \cup guesser.txn.rows
    /\ guesser' = NextProject(guesser, guesser.txn.project, "guess")
    /\ UNCHANGED <<indexed, files, sched, unit, faults, tmpdirs, probe>>

\* the insert or the commit raises (the connection is lost): the
\* transaction is rolled back and the exception leaves main
GuessFail ==
    /\ guesser.pc = "txn"
    /\ guesser' = [guesser EXCEPT !.pc = "raised", !.next = 0, !.txn = <<>>]
    /\ UNCHANGED <<indexed, files, sched, unit, faults, tmpdirs, probe, imports>>

\* the crawler (get_files.process_versions, lines 231-258) commits the
\* indexing of the download it selects for the latest version of project
\* p: a failure tag, or 'yes' with the rows of the files of the archive
Crawled(p) ==
    /\ ~IsIndexed(ProjectName(p), LatestVersion(ProjectVersions(p)))
    /\ ListDownloads(ProjectName(p), LatestVersion(ProjectVersions(p))) # <<>>
    /\ LET d == PickDownload(ListDownloads(ProjectName(p), LatestVersion(ProjectVersions(p))))
       IN \/ /\ \E tag \in FailureTags : indexed' = [indexed EXCEPT ![d] = tag]
             /\ UNCHANGED files
          \/ /\ indexed' = [indexed EXCEPT ![d] = "yes"]
             /\ \E names \in
                   {{<<"m","y","p","k","g","/","_","_","i","n","i","t","_","_",".","p","y">>, <<"s","e","t","u","p",".","p","y">>},
                    {<<"s","e","t","u","p",".","p","y">>, <<"R","E","A","D","M","E">>},
                    {<<".","p","y">>, <<"e",".","p","y">>}} :
                   files' = files \cup {FileRow(d, name) : name \in names}
    /\ guesser' = [guesser EXCEPT !.seen = {x \in @ : x.project # p}]
    /\ UNCHANGED <<sched, unit, faults, tmpdirs, probe, imports>>

\* the downloads of the versions that are no longer the latest were
\* indexed when their version was the latest, and the guesser has run then
\* or not
InitGuesser ==
    LET older == {d \in DownloadIds : \E p \in Projects :
                     /\ Downloads[d].project_name = ProjectName(p)
                     /\ Downloads[d].project_version # LatestVersion(ProjectVersions(p))}
    IN /\ indexed = [d \in DownloadIds |-> IF d \in older THEN "yes" ELSE NULL]
       /\ files = UNION {RowsOf(d) : d \in older}
       /\ imports \in {{}, UNION {UNION {GuessRows(p, Downloads[d].project_version, d, RowsOf(d)) :
                                     p \in {q \in Projects : Downloads[d].project_name = ProjectName(q)}} :
                                  d \in older}}
       /\ guesser = GuesserOff
       /\ sched = [c \in Crawlers |-> Off]
       /\ unit = [t \in Tasks |-> Idle]
       /\ faults = 0
       /\ tmpdirs = {}
       /\ probe = NoProbe

SpecGuesser ==
    InitGuesser /\ [][\/ GuesserStart
                      \/ GuessVisit
                      \/ GuessCommit
                      \/ GuessFail
                      \/ \E p \in Projects : Crawled(p)]_vars

(***************************************************************************)
(* iter_project_versions, on its own, over a project_versions table.  A    *)
(* row is <<project_name, version>>; names and versions are numbered in    *)
(* string order, 0 standing for the empty string and, for                  *)
(* current_project_name, for None.  The query has no ORDER BY: the storage *)
(* lists the rows it selects in any order.  For the one table of more than *)
(* MaxRows rows (one project with PROJECT_CHUNK_SIZE + 1 versions), only   *)
(* the listing in key order is taken.                                      *)
(***************************************************************************)
\* the WHERE clause of the query
Where(table, project, version) ==
    {r \in table : r[1] > project \/ (r[1] = project /\ r[2] > version)}

\* the rows a table can have, in the order of the primary key
KeyListing ==
    [i \in 1..(PROJECT_CHUNK_SIZE + 5) |->
        IF i <= PROJECT_CHUNK_SIZE + 1 THEN <<1, i>>
        ELSE <<2 + ((i - PROJECT_CHUNK_SIZE - 2) \div 2), 1 + ((i - PROJECT_CHUNK_SIZE - 2) % 2)>>]

\* the lists fetchall() can return for the rows selected
FetchOrders(rows) ==
    IF Cardinality(rows) > MaxRows
    THEN {SelectSeq(KeyListing, LAMBDA r : r \in rows)}
    ELSE {order \in [1..Cardinality(rows) -> rows] :
             \A i, j \in 1..Cardinality(rows) : i # j => order[i] # order[j]}

\* lines 276-284: the body of the for loop for one row
ForRow(it, row) ==
    IF it.current_project_name = 0
    THEN [it EXCEPT !.current_project_name = row[1], !.versions = Append(@, row[2])]
    ELSE IF row[1] = it.current_project_name
    THEN [it EXCEPT !.versions = Append(@, row[2])]
    ELSE [it EXCEPT !.yielded = Append(@, <<it.current_project_name, it.versions>>),
                    !.current_project_name = row[1], !.versions = <<row[2]>>]

\* the generator: the first fetch (line 272), one row of the for loop,
\* the next fetch (lines 286-289), the end of the while loop (lines
\* 291-292).  i is the position in the list fetched, held the largest
\* number of rows a fetch has returned.
iter_project_versions ==
    /\ \/ /\ probe = NoProbe
          /\ \E table \in {t \in SUBSET {KeyListing[k] : k \in {1, 2} \cup
                                            ((PROJECT_CHUNK_SIZE + 2)..(PROJECT_CHUNK_SIZE + 5))} :
                              Cardinality(t) <= MaxRows}
                            \cup {{KeyListing[k] : k \in 1..(PROJECT_CHUNK_SIZE + 1)}},
                start_from \in 0..3 :
               \E projects \in FetchOrders(Where(table, start_from, 0)) :
                  probe' = [kind |-> "iter", pc |-> "while", table |-> table,
                            start_from |-> start_from, projects |-> projects, i |-> 1,
                            held |-> Len(projects), current_project_name |-> 0,
                            versions |-> <<>>, yielded |-> <<>>]
       \/ /\ probe.kind = "iter" /\ probe.pc = "while" /\ probe.i <= Len(probe.projects)
          /\ probe' = [ForRow(probe, probe.projects[probe.i]) EXCEPT !.i = @ + 1]
       \/ /\ probe.kind = "iter" /\ probe.pc = "while" /\ probe.projects # <<>>
          /\ probe.i > Len(probe.projects)
          /\ \E projects \in FetchOrders(Where(probe.table, probe.current_project_name,
                                               probe.versions[Len(probe.versions)])) :
                probe' = [probe EXCEPT !.projects = projects, !.i = 1,
                                       !.held = IF Len(projects) > @ THEN Len(projects) ELSE @]
       \/ /\ probe.kind = "iter" /\ probe.pc = "while" /\ probe.projects = <<>>
          /\ probe' = [probe EXCEPT !.pc = "done",
                          !.yielded = IF probe.versions # <<>>
                                      THEN Append(@, <<probe.current_project_name, probe.versions>>)
                                      ELSE @]
    /\ UNCHANGED <<indexed, files, sched, unit, faults, tmpdirs, imports, guesser>>

SpecIter == Init /\ [][iter_project_versions]_vars

(***************************************************************************)
(* utils.secure_filename, on its own, for the names of remote artifacts    *)
(* and for the two values of os.name == 'nt'.                              *)
(***************************************************************************)
windows_device_files ==
    {<<"C","O","N">>, <<"A","U","X">>, <<"C","O","M","1">>, <<"C","O","M","2">>,
     <<"C","O","M","3">>, <<"C","O","M","4">>, <<"L","P","T","1">>, <<"L","P","T","2">>,
     <<"L","P","T","3">>, <<"P","R","N">>, <<"N","U","L">>}

\* a faulty variant of not_ascii_re_sub: no character is removed
NotAsciiKeepAll(s) == s

\* _not_ascii_re.sub('', s): the characters other than A-Z a-z 0-9 _ . -
\* are removed
not_ascii_re_sub(s) ==
    SelectSeq(s, LAMBDA c :
        \/ \E i \in 1..26 : c = UpperChars[i] \/ c = LowerChars[i]
        \/ c \in {"0", "1", "2", "3", "4", "5", "6", "7", "8", "9", "_", ".", "-"})

secure_filename(name, is_windows) ==
    LET \* s[s.rindex(ch) + 1:] when ch is in s
        AfterLast(s, ch) ==
            IF \E i \in 1..Len(s) : s[i] = ch
            THEN SubSeq(s, 1 + (CHOOSE i \in 1..Len(s) :
                                   s[i] = ch /\ \A j \in (i + 1)..Len(s) : s[j] # ch), Len(s))
            ELSE s
        \* os.path.splitext of a path without separator: the extension
        \* begins at the last dot that has a character other than a dot
        \* before it
        SplitExt(s) ==
            IF \E i \in 1..Len(s) : s[i] = "." /\ \E k \in 1..(i - 1) : s[k] # "."
            THEN LET dot == CHOOSE i \in 1..Len(s) :
                               s[i] = "." /\ \A j \in (i + 1)..Len(s) : s[j] # "."
                 IN <<SubSeq(s, 1, dot - 1), SubSeq(s, dot, Len(s))>>
            ELSE <<s, <<>>>>
        \* s.strip('._')
        Strip(s) ==
            LET kept == {i \in 1..Len(s) : s[i] \notin {".", "_"}}
            IN IF kept = {} THEN <<>>
               ELSE SubSeq(s, CHOOSE i \in kept : \A j \in kept : i <= j,
                              CHOOSE i \in kept : \A j \in kept : i >= j)
        \* s.split('.')[0].upper()
        Device(s) ==
            LET first == IF IndexOf(s, ".") = 0 THEN s ELSE SubSeq(s, 1, IndexOf(s, ".") - 1)
            IN [i \in 1..Len(first) |->
                   IF \E k \in 1..26 : LowerChars[k] = first[i]
                   THEN UpperChars[CHOOSE k \in 1..26 : LowerChars[k] = first[i]]
                   ELSE first[i]]
        base == AfterLast(name, "/")
        local == IF is_windows THEN AfterLast(base, "\\") ELSE base
        split == SplitExt(local)
        stem == Strip(not_ascii_re_sub(SubSeq(split[1], 1, Min(Len(split[1]), StemLength))))
        safe == IF stem = <<>> THEN <<"_">> ELSE stem
        ext == not_ascii_re_sub(split[2])
    IN IF is_windows /\ Device(safe) \in windows_device_files
       THEN <<"_">> \o safe \o ext
       ELSE safe \o ext

\* secure_filename(download['name']) of line 222 of get_files.py
Sanitize ==
    /\ probe = NoProbe
    /\ \E dir \in {<<>>, <<"/">>, <<".", ".", "/">>, <<"d", "\\">>, <<"~">>},
          stem \in {<<>>, <<"a">>, <<".", "_">>, <<".", ".">>, <<"-">>, <<"a", " ", "b">>,
                    [i \in 1..StemLength |-> "a"], [i \in 1..(StemLength + 1) |-> "a"],
                    <<"c", "o", "n">>, <<"a", "u", "x", "~">>,
                    <<"C", "O", "N", ".">> \o [i \in 1..(StemLength - 4) |-> "a"]},
          ext \in {<<>>, <<".">>, <<".", "g", "z">>, <<".", "t", "a", "r", ".", "g", "z">>,
                   <<".", "~">>, <<"/">>},
          is_windows \in BOOLEAN :
            probe' = [kind |-> "filename", name |-> dir \o stem \o ext,
                      is_windows |-> is_windows,
                      filename |-> secure_filename(dir \o stem \o ext, is_windows)]
    /\ UNCHANGED <<indexed, files, sched, unit, faults, tmpdirs, imports, guesser>>

SpecFilename == Init /\ [][Sanitize]_vars

SpecTwoCrawlers == InitTwoCrawlers /\ [][Next]_vars

(***************************************************************************)
(* Properties.                                                             *)
(***************************************************************************)
\* the download row a unit has selected: of its project, at the latest version
Selected(t) == unit[t].download

\* downloads.indexed is set for some download of the latest version of p
StatusSet(p) ==
    \E d \in DownloadIds :
        /\ Downloads[d].project_name = ProjectName(p)
        /\ Downloads[d].project_version = LatestVersion(ProjectVersions(p))
        /\ indexed[d] # NULL

\* the units of crawler c that are started and not yet observed as completed
InFlight(c) == {p \in Projects : unit[<<c, p>>].pc \in {"ready", "download", "done"}}

\* C1: in every committed state, a download whose status is set either has
\* File rows and the status 'yes', or has no File row and a failure tag.
C1_StatusMatchesFiles ==
    \A d \in DownloadIds :
        indexed[d] # NULL =>
            \/ FilesOf(d) # {} /\ indexed[d] = "yes"
            \/ FilesOf(d) = {} /\ indexed[d] \in FailureTags

\* C2: the step in which an introspection that has staged File rows ends
\* with a failure outcome leaves the files table as it was, with no File
\* row of that download, and commits the failure tag as the status of the
\* download.
C2_FailureRollsBack ==
    [][\A t \in Tasks :
          (unit[t].pc = "download" /\ unit'[t].pc = "done"
             /\ unit'[t].result \in FailureTags /\ unit'[t].staged > 0)
          => /\ files' = files
             /\ {r \in files' : r.download_name = Selected(t)} = {}
             /\ indexed'[Selected(t)] = unit'[t].result]_vars

\* C2 witness: an introspection has failed after it had staged rows, and
\* the download has its failure tag and no File row.
C2_Witness ==
    \E t \in Tasks :
        /\ unit[t].pc = "done"
        /\ unit[t].result \in {"wrong structure", "bad archive"}
        /\ unit[t].staged > 0
        /\ indexed[Selected(t)] = unit[t].result
        /\ FilesOf(Selected(t)) = {}

\* C3: in every committed state the File rows of a download are none, or
\* all the rows of its archive with a status that is set; and the rows of
\* a download change only in a step that takes them from none to all and
\* sets the status 'yes' in the same commit.
C3_FilesAllOrNothing ==
    /\ [](\A d \in DownloadIds :
             \/ FilesOf(d) = {}
             \/ FilesOf(d) = RowsOf(d) /\ indexed[d] # NULL)
    /\ [][\A d \in DownloadIds :
             {r \in files' : r.download_name = d} # FilesOf(d)
             => /\ FilesOf(d) = {}
                /\ {r \in files' : r.download_name = d} = RowsOf(d)
                /\ indexed'[d] = "yes"]_vars

\* C3 witness: a download has all its rows (more than one) and the status
\* 'yes' after an earlier attempt of its unit raised, while another unit is
\* in its download.
C3_Witness ==
    \E t \in Tasks :
        /\ unit[t].pc = "done" /\ unit[t].result = "yes" /\ unit[t].attempt > 1
        /\ Cardinality(FilesOf(Selected(t))) > 1
        /\ FilesOf(Selected(t)) = RowsOf(Selected(t))
        /\ \E o \in Tasks : unit[o].pc = "download"

C5_StatusWrittenOnce ==
    [][\A d \in DownloadIds :
          indexed[d] # NULL
          => /\ indexed'[d] = indexed[d]
             /\ {r \in files' : r.download_name = d} = FilesOf(d)]_vars

\* C6: the number of units in flight never exceeds the ceiling.
C6_CeilingHolds ==
    \A c \in Crawlers :
        /\ Cardinality(InFlight(c)) <= CONCURRENT_REQUESTS
        /\ Cardinality(sched[c].tasks) <= CONCURRENT_REQUESTS

\* C6 witness: the ceiling is reached again after a poll, with units of
\* the backlog admitted by the refill.
C6_Witness ==
    \E c \in Crawlers :
        /\ Cardinality(InFlight(c)) = CONCURRENT_REQUESTS
        /\ sched[c].done_projects > 0
        /\ sched[c].next > CONCURRENT_REQUESTS + 1

\* C7: when a run of the scheduler is over, every unit of the backlog other
\* than the units that failed permanently has been dispatched, has
\* completed and has had its result taken.
C7_OthersComplete ==
    \A c \in Crawlers :
        sched[c].pc \in {"returned", "raised"}
        => \A i \in 1..Len(Backlog(sched[c].start_from)) :
              LET t == <<c, Backlog(sched[c].start_from)[i]>>
              IN unit[t].pc = "polled" \/ (unit[t].pc = "done" /\ unit[t].exc # "")

C9_DecodeErrorsCaught ==
    /\ \A t \in Tasks : unit[t].exc \notin DecodeErrors
    /\ \A c \in Crawlers : sched[c].exc \notin DecodeErrors

\* C10: a unit is attempted at most Retries (3) times; each attempt after
\* the first follows an exception logged by the wrapper; an exception
\* leaves the unit only from the last attempt; and a unit that has
\* returned or raised makes no further attempt.
C10_RetryBounded ==
    /\ [](\A t \in Tasks :
             /\ unit[t].attempt <= Retries
             /\ unit[t].attempt >= 1 => unit[t].logged = unit[t].attempt - 1
             /\ unit[t].exc # "" => unit[t].attempt = Retries)
    /\ [][\A t \in Tasks :
             /\ (unit[t].attempt >= 1 /\ unit'[t].attempt > unit[t].attempt)
                => /\ unit[t].pc = "download"
                   /\ unit'[t].attempt = unit[t].attempt + 1
                   /\ unit'[t].logged = unit[t].logged + 1
                   /\ indexed' = indexed /\ files' = files
             /\ unit[t].pc = "done" => unit'[t].pc \in {"done", "polled", "idle"}]_vars

\* C10 witness: a unit has raised from its third attempt, after two logged
\* exceptions.
C10_Witness ==
    \E t \in Tasks :
        /\ unit[t].pc = "done" /\ unit[t].exc # ""
        /\ unit[t].attempt = Retries /\ unit[t].logged = Retries - 1

\* C11: a step in which a unit raises, or ends with a failure outcome and
\* its rollback, leaves every File row and every status that is already
\* set as they were.
C11_UnitsIsolated ==
    [][\A t \in Tasks :
          (/\ unit[t].pc = "download"
           /\ unit'[t] # unit[t]
           /\ (unit'[t].pc # "done" \/ unit'[t].result # "yes"))
          => /\ files' = files
             /\ \A d \in DownloadIds : indexed[d] # NULL => indexed'[d] = indexed[d]]_vars

\* C12: no unit is left in flight, started and not completed, when the
\* scheduler has ended.
C12_NoUnitAbandoned ==
    \A c \in Crawlers :
        sched[c].pc \in {"returned", "raised"}
        => \A p \in Projects : unit[<<c, p>>].pc \notin {"ready", "download"}

\* C13: the step in which the scheduler takes the result of a unit that
\* ended with an exception ends the scheduler with that exception; and
\* the scheduler never goes on past a poll that found such a unit.
C13_ExceptionPropagates ==
    [][\A c \in Crawlers :
          /\ \A p \in Projects :
                (unit[<<c, p>>].pc = "done" /\ unit[<<c, p>>].exc # ""
                   /\ unit'[<<c, p>>].pc = "polled")
                => sched'[c].pc = "raised" /\ sched'[c].exc = unit[<<c, p>>].exc
          /\ (/\ sched[c].pc = "wait"
              /\ sched'[c] # sched[c]
              /\ \E p \in sched[c].tasks :
                    unit[<<c, p>>].pc = "done" /\ unit[<<c, p>>].exc # "")
             => /\ sched'[c].pc = "raised"
                /\ \E p \in sched[c].tasks :
                      /\ unit[<<c, p>>].pc = "done"
                      /\ sched'[c].exc = unit[<<c, p>>].exc
                      /\ sched'[c].exc # ""]_vars

\* C13 witness: the scheduler has ended with the exception of a unit that
\* raised from its last attempt.
C13_Witness ==
    \E c \in Crawlers :
        /\ sched[c].pc = "raised"
        /\ sched[c].exc \in {"aiohttp.ClientError", "zlib.error", "lzma.LZMAError",
                             "sqlalchemy.IntegrityError"}

\* C14: every temporary directory that exists is the directory of one unit
\* that is in the download of the attempt that made it, and a unit in its
\* download has one directory of its own: no directory is left after the
\* attempt that made it has ended.
C14_TmpdirScoped ==
    /\ \A x \in tmpdirs :
          unit[x.owner].pc = "download" /\ unit[x.owner].attempt = x.attempt
    /\ \A t \in Tasks :
          unit[t].pc = "download"
          => Cardinality({x \in tmpdirs : x.owner = t}) = 1

\* C14 witness: attempts have ended by success, by a recorded failure and
\* by an exception of the download or of the introspection, a retried
\* attempt is in its download, and the only directories are those of the
\* units in their download.
C14_Witness ==
    /\ \E t \in Tasks : unit[t].pc = "done" /\ unit[t].result = "yes"
    /\ \E t \in Tasks : unit[t].pc = "done" /\ unit[t].result \in FailureTags
    /\ \E t \in Tasks : unit[t].pc = "download" /\ unit[t].attempt > 1
    /\ Cardinality(tmpdirs) = Cardinality({t \in Tasks : unit[t].pc = "download"})

\* the priority of a row under the table of priorities, on its declared
\* type and declared Python tag
TablePriority(row) ==
    IF row.type = "bdist_wheel"
    THEN IF row.python_version = NoTag THEN 5
         ELSE IF Contains(row.python_version, <<"p","y","2">>) THEN 6
         ELSE IF Contains(row.python_version, <<"p","y","3">>) THEN 7
         ELSE IF Contains(row.python_version, <<"c","p">>) THEN 1
         ELSE 4
    ELSE IF row.type = "bdist_egg" THEN 3
    ELSE IF row.type = "sdist" THEN 2
    ELSE 0

\* the positions of a listing whose row has the maximal table priority
TableMaxima(rows) ==
    {i \in 1..Len(rows) :
        \A j \in 1..Len(rows) : TablePriority(rows[j]) <= TablePriority(rows[i])}

\* C15: the download selected from a non-empty listing has the maximal
\* priority of the listing under the table, evaluated on the declared type
\* and the declared Python tag of each row.
C15_SelectsMaxPriority ==
    probe.kind = "select" => probe.picked \in TableMaxima(probe.rows)

\* C16: when several rows of the listing share the maximal table priority,
\* the download selected is the first of them in the listing.
C16_TieBreakFirst ==
    (probe.kind = "select" /\ Cardinality(TableMaxima(probe.rows)) > 1)
    => /\ probe.picked \in TableMaxima(probe.rows)
       /\ \A i \in TableMaxima(probe.rows) : probe.picked <= i

(***************************************************************************)
(* Properties of the introspection of one archive.                         *)
(***************************************************************************)
ProbeMode == ArchiveMode(probe.filename)

ProbeMembers == {probe.members[i] : i \in 1..Len(probe.members)}

\* case-folded, with '-' mapped to '_'
Norm(name) == Replace(Lower(name), "-", "_")

HasSlash(name) == \E i \in 1..Len(name) : name[i] = "/"

FirstSlash(name) == CHOOSE i \in 1..Len(name) : name[i] = "/" /\ \A j \in 1..(i - 1) : name[j] # "/"

\* the top-level directory of a member path
TopLevel(name) == SubSeq(name, 1, FirstSlash(name) - 1)

\* the member path with the top-level directory, up to and including the
\* first '/', removed
Stripped(name) == SubSeq(name, FirstSlash(name) + 1, Len(name))

\* a directory entry: by its type in a tarball, by its name in a zip
IsDirectory(m) == IF ProbeMode = "tar" THEN m.isdir ELSE m.name[Len(m.name)] = "/"

NonDirectories == {m \in ProbeMembers : ~IsDirectory(m)}

\* the regular files: in a tarball a symbolic link is not one
RegularFiles == {m \in NonDirectories : ProbeMode = "tar" => m.isfile}

\* the file members do not all live under one top-level directory, or that
\* directory does not match the project name, or a file member has no '/'
BadStructure ==
    \/ Cardinality({Norm(TopLevel(m.name)) : m \in {x \in RegularFiles : HasSlash(x.name)}}) > 1
    \/ \E m \in RegularFiles :
          HasSlash(m.name) /\ ~StartsWith(Norm(TopLevel(m.name)), Norm(ProbeProject))
    \/ \E m \in RegularFiles : ~HasSlash(m.name)

\* excluded from a wheel or an egg
Excluded(name) ==
    \/ Contains(name, <<".","d","i","s","t","-","i","n","f","o","/">>)
    \/ StartsWith(name, <<"E","G","G","-","I","N","F","O">>)
    \/ EndsWith(name, <<".","d","i","s","t","-","i","n","f","o">>)
    \/ name \in IGNORED_FILES

\* under or equal to an egg-info path
EggInfoPath(name) ==
    \/ Contains(name, <<".","e","g","g","-","i","n","f","o","/">>)
    \/ EndsWith(name, <<".","e","g","g","-","i","n","f","o">>)

\* the rows of a well-structured sdist, one per member of `members` that is
\* kept, under its stripped name
SdistRows(members) ==
    {FileRow(0, Stripped(m.name)) :
        m \in {x \in members : /\ ~EggInfoPath(x.name)
                               /\ x.name \notin IGNORED_FILES
                               /\ Stripped(x.name) \notin IGNORED_FILES}}

\* C17: for an sdist zip or tarball whose file members do not all live
\* under one top-level directory, or whose top-level directory does not
\* match the project name, or that has a file member without '/', the
\* outcome is 'wrong structure' and no File row is persisted.
C17_BadStructureRejected ==
    (probe.kind = "archive" /\ ProbeMode \in {"zip", "tar"} /\ BadStructure)
    => /\ probe.exc = ""
       /\ probe.result = "wrong structure"
       /\ probe.rows = {}

\* C18: for a wheel or egg with at least one member that is not excluded,
\* the outcome is 'yes' and the File rows are exactly one row per distinct
\* member name that is not excluded, under the full member name.
C18_FlatRows ==
    (/\ probe.kind = "archive"
     /\ ProbeMode = "flat"
     /\ \E m \in ProbeMembers : ~Excluded(m.name))
    => /\ probe.exc = ""
       /\ probe.result = "yes"
       /\ probe.rows = {FileRow(0, m.name) : m \in {x \in ProbeMembers : ~Excluded(x.name)}}
       /\ Cardinality(probe.rows)
             = Cardinality({m.name : m \in {x \in ProbeMembers : ~Excluded(x.name)}})

\* C18 witness: a wheel of three members, one of them excluded, has given
\* two rows.
C18_Witness ==
    /\ probe.kind = "archive"
    /\ ProbeMode = "flat"
    /\ Len(probe.members) = 3
    /\ \E m \in ProbeMembers : Excluded(m.name)
    /\ probe.result = "yes"
    /\ Cardinality(probe.rows) = 2

ZeroEligible ==
    IF ProbeMode = "flat"
    THEN \A m \in ProbeMembers : Excluded(m.name)
    ELSE \A m \in RegularFiles :
            /\ StartsWith(Norm(m.name), Norm(ProbeProject))
            /\ \/ EggInfoPath(m.name)
               \/ m.name \in IGNORED_FILES
               \/ HasSlash(m.name) /\ Stripped(m.name) \in IGNORED_FILES

\* C20: in every archive mode, when filtering leaves no eligible member,
\* the outcome is 'no files' and no File row is persisted.
C20_NoFiles ==
    (probe.kind = "archive" /\ ZeroEligible)
    => /\ probe.exc = ""
       /\ probe.result = "no files"
       /\ probe.rows = {}

\* C20 witness: a wheel whose members are all under .dist-info or
\* otherwise excluded has given 'no files'.
C20_Witness ==
    /\ probe.kind = "archive"
    /\ ProbeMode = "flat"
    /\ Len(probe.members) >= 2
    /\ \A m \in ProbeMembers : Excluded(m.name)
    /\ \E m \in ProbeMembers : Contains(m.name, <<".","d","i","s","t","-","i","n","f","o","/">>)
    /\ probe.result = "no files"
    /\ probe.rows = {}

\* the number of bytes of a stream
RECURSIVE StreamLength(_)
StreamLength(reads) ==
    IF reads = <<>> THEN 0 ELSE Head(reads) + StreamLength(Tail(reads))

\* C21: for every readable stream, also one whose reads return fewer than
\* 4096 bytes before the end, the byte count recorded is the number of bytes
\* of the stream and both digests are computed over all of those bytes.
C21_HashesWholeStream ==
    probe.kind = "hash" =>
        /\ probe.row.size_bytes = StreamLength(probe.reads)
        /\ probe.row.hash_sha1.fed = StreamLength(probe.reads)
        /\ probe.row.hash_sha256.fed = StreamLength(probe.reads)

\* C22: a response whose status is not 2xx does not make the call raise
\* (the wrapper has nothing to retry): the body is introspected and the call
\* commits a status for the download, 'bad archive' when the body is not a
\* readable archive.
C22_ErrorStatusStillIndexed ==
    (probe.kind = "response" /\ probe.status \notin 200..299) =>
        /\ probe.exc = ""
        /\ probe.indexed # NULL
        /\ probe.content.fault = "open" => probe.indexed = "bad archive"

\* C24: the import names guessed from the files of a download are exactly,
\* for each file path that ends in '.py' and is not test.py, tests.py or
\* setup.py, the first path segment when the path has a '/', else the file
\* name without '.py'; mypkg/__init__.py, mypkg/util.py, setup.py give
\* {mypkg}, and setup.py with tests.py gives the empty set.
C24_CandidateSet ==
    probe.kind = "guess" =>
        /\ probe.import_names =
              {IF HasSlash(f) THEN TopLevel(f) ELSE SubSeq(f, 1, Len(f) - 3) :
                  f \in {g \in probe.files :
                            /\ EndsWith(g, <<".","p","y">>)
                            /\ g # <<"t","e","s","t",".","p","y">> /\ g # <<"t","e","s","t","s",".","p","y">> /\ g # <<"s","e","t","u","p",".","p","y">>}}
        /\ probe.files = {<<"m","y","p","k","g","/","_","_","i","n","i","t","_","_",".","p","y">>, <<"m","y","p","k","g","/","u","t","i","l",".","p","y">>, <<"s","e","t","u","p",".","p","y">>} => probe.import_names = {<<"m","y","p","k","g">>}
        /\ probe.files = {<<"s","e","t","u","p",".","p","y">>, <<"t","e","s","t","s",".","p","y">>} => probe.import_names = {}

\* C24 witness: names were guessed from a nested module, from a top-level
\* module and from a nested setup.py, next to files that give no name.
C24_Witness ==
    /\ probe.kind = "guess"
    /\ {<<"m","y","p","k","g","/","u","t","i","l",".","p","y">>, <<"e",".","p","y">>, <<"a","/","s","e","t","u","p",".","p","y">>, <<"s","e","t","u","p",".","p","y">>, <<"R","E","A","D","M","E">>} \subseteq probe.files
    /\ probe.import_names = {<<"m","y","p","k","g">>, <<"e">>, <<"a">>}

\* the project the guesser visits in a step of process_versions that
\* starts at the top of the loop of main (0: the step is no such step)
Visited ==
    IF guesser.pc = "sweep" /\ (guesser'.next # guesser.next \/ guesser'.pc # "sweep")
    THEN Backlog(1)[guesser.next] ELSE 0

\* C23: the rows of a project in the committed python_imports table change
\* only by the commit of the guesser's transaction for that project, and
\* then they become exactly the new set: no committed state has the prior
\* rows deleted without the new set, and no prior row survives.
C23_ReplacedAtomically ==
    [][\A p \in Projects :
          ImportsOf(imports', p) # ImportsOf(imports, p) =>
             /\ guesser.pc = "txn" /\ guesser.txn.project = p
             /\ guesser.txn.rows # {}
             /\ ImportsOf(imports', p) = guesser.txn.rows]_vars

\* C23 witness: the guesser has executed the delete for a project that has
\* rows deduced from an older version, its transaction is open, and the
\* committed table still holds the prior rows.
C23_Witness ==
    /\ guesser.pc = "txn"
    /\ ImportsOf(imports, guesser.txn.project) # {}
    /\ ImportsOf(imports, guesser.txn.project) \cap guesser.txn.rows = {}

\* C25: for every project, a row with an empty import path exists if and
\* only if no import name could be guessed from the files of the download
\* the rows were deduced from, and then it is the only row of the project.
C25_SentinelOnlyWhenNoGuess ==
    \A p \in Projects :
       ImportsOf(imports, p) # {} =>
          LET d == (CHOOSE r \in ImportsOf(imports, p) : TRUE).deduced_from_download_name
              names == {f.name : f \in FilesOf(d)}
              guessed == {n \in {TopLevel(f) : f \in {g \in names : HasSlash(g)}}
                                 \cup {SubSeq(f, 1, Len(f) - 3) : f \in {g \in names : Len(g) >= 3}} :
                            n # <<>> /\ n \in import_names(names)}
              sentinel == \E r \in ImportsOf(imports, p) : r.import_path = <<>>
          IN /\ sentinel <=> guessed = {}
             /\ sentinel => Cardinality(ImportsOf(imports, p)) = 1

\* C26: a project that the guesser has visited to the end, and whose
\* versions, downloads and files have not changed since, is skipped at the
\* next visit with no write, also when its only row is the empty-path row.
C26_SecondSweepWritesNothing ==
    [][\A p \in Projects :
          (Visited = p /\ \E x \in guesser.seen : x.project = p) =>
              /\ imports' = imports
              /\ guesser'.pc # "txn"]_vars

\* C26 witness: in the second run of main, a project whose only row is the
\* empty-path row was found already guessed and skipped.
C26_Witness ==
    /\ guesser.sweeps = 2
    /\ \E x \in guesser.seen :
          /\ x.how = "is guessed, skipping"
          /\ \A r \in ImportsOf(imports, x.project) : r.import_path = <<>>
          /\ ImportsOf(imports, x.project) # {}

\* C27: when no download of the latest version of a project has the status
\* 'yes', the visit of the guesser writes nothing for the project: rows
\* deduced from an older version stay and no empty-path row is inserted.
C27_NoSuccessNoWrite ==
    [][\A p \in Projects :
          (/\ Visited = p
           /\ \A d \in DownloadIds :
                 (/\ Downloads[d].project_name = ProjectName(p)
                  /\ Downloads[d].project_version = LatestVersion(ProjectVersions(p)))
                 => indexed[d] # "yes") =>
              /\ imports' = imports
              /\ guesser'.pc # "txn"]_vars

\* C27 witness: the guesser has visited a project whose latest version has
\* downloads, one with a failure tag and none with 'yes', and the rows
\* deduced from an older version are still the rows of the project.
C27_Witness ==
    \E x \in guesser.seen :
       /\ x.how = "can't guess, no files"
       /\ \E d \in DownloadIds :
             /\ Downloads[d].project_name = ProjectName(x.project)
             /\ Downloads[d].project_version = LatestVersion(ProjectVersions(x.project))
             /\ indexed[d] \in FailureTags
       /\ \E r \in ImportsOf(imports, x.project) :
             r.deduced_from_project_version # LatestVersion(ProjectVersions(x.project))

\* C28: the iteration yields, for every project that has a version row at
\* or after the start key, exactly one pair whose versions are exactly the
\* version rows of the project, in ascending order of project name: no
\* project twice or split, no version lost or duplicated.
C28_OnePairPerProject ==
    (probe.kind = "iter" /\ probe.pc = "done") =>
        LET rows == {r \in probe.table : r[1] >= probe.start_from}
            yielded == probe.yielded
        IN /\ {yielded[i][1] : i \in 1..Len(yielded)} = {r[1] : r \in rows}
           /\ \A i, j \in 1..Len(yielded) : i < j => yielded[i][1] < yielded[j][1]
           /\ \A i \in 1..Len(yielded) :
                 /\ {yielded[i][2][k] : k \in 1..Len(yielded[i][2])}
                       = {r[2] : r \in {q \in rows : q[1] = yielded[i][1]}}
                 /\ Len(yielded[i][2])
                       = Cardinality({q \in rows : q[1] = yielded[i][1]})

\* C29: every fetch of the iteration returns at most one page of rows
\* (PROJECT_CHUNK_SIZE), so the rows held at once are bounded by the page
\* size whatever the size of the table.
C29_FetchBounded ==
    probe.kind = "iter" => probe.held <= PROJECT_CHUNK_SIZE

\* the part of a file name before its extension: before the last dot that
\* has a character other than a dot before it
StemOf(filename) ==
    IF \E i \in 1..Len(filename) : filename[i] = "." /\ \E k \in 1..(i - 1) : filename[k] # "."
    THEN SubSeq(filename, 1, (CHOOSE i \in 1..Len(filename) :
                      filename[i] = "." /\ \A j \in (i + 1)..Len(filename) : filename[j] # ".") - 1)
    ELSE filename

\* the sanitized name is not empty, has no path separator and only the
\* characters A-Z a-z 0-9 _ . -, and is neither '.' nor '..': joined to
\* the temporary directory it names a file directly inside it
SafeInDirectory(filename) ==
    /\ filename # <<>>
    /\ \A i \in 1..Len(filename) :
          /\ filename[i] \notin {"/", "\\"}
          /\ \/ \E k \in 1..26 : filename[i] = UpperChars[k] \/ filename[i] = LowerChars[k]
             \/ filename[i] \in {"0", "1", "2", "3", "4", "5", "6", "7", "8", "9", "_", ".", "-"}
    /\ filename # <<".">>
    /\ filename # <<".", ".">>

\* C30, as stated: for every remote artifact name the sanitized name is
\* safe inside the unit's temporary directory and its stem has at most 20
\* characters.
C30_StemAtMostTwenty ==
    probe.kind = "filename" =>
        /\ SafeInDirectory(probe.filename)
        /\ Len(StemOf(probe.filename)) <= 20

\* C30, amended: for every remote artifact name the sanitized name is safe
\* inside the unit's temporary directory; its stem has at most 20
\* characters, except on Windows when the stem of 20 characters begins with
\* a reserved device name: the '_' put before it makes 21.
C30_SafeFilename ==
    probe.kind = "filename" =>
        /\ SafeInDirectory(probe.filename)
        /\ Len(StemOf(probe.filename)) <= 21
        /\ Len(StemOf(probe.filename)) = 21 =>
              /\ probe.is_windows
              /\ probe.filename[1] = "_"
              /\ \E n \in 3..4 :
                    /\ SubSeq(probe.filename, 2, n + 1) \in
                          {<<"C","O","N">>, <<"A","U","X">>, <<"P","R","N">>, <<"N","U","L">>,
                           <<"C","O","M","1">>, <<"C","O","M","2">>, <<"C","O","M","3">>,
                           <<"C","O","M","4">>, <<"L","P","T","1">>, <<"L","P","T","2">>,
                           <<"L","P","T","3">>}
                    /\ probe.filename[n + 2] = "."

\* C30 witness: a remote name with a directory part '../' and 21
\* characters before '.tar.gz' was sanitized to the first 20 of them
\* followed by '.gz'.
C30_Witness ==
    /\ probe.kind = "filename"
    /\ probe.name = <<".", ".", "/">> \o [i \in 1..21 |-> "a"] \o <<".", "t", "a", "r", ".", "g", "z">>
    /\ probe.filename = [i \in 1..20 |-> "a"] \o <<".", "g", "z">>

\* C31: a step that changes the files table or a status is the step of a
\* unit in its download; the download it has selected is a download of its
\* project and of the greatest version of the project; the rows added or
\* removed are rows of that download and no other download changes status.
\* (The projects and project_versions tables are not written by the crawl:
\* they are the fixed seed of the model.)
C31_WritesOnlySelected ==
    [][(files' # files \/ indexed' # indexed) =>
         \E t \in Tasks :
            /\ unit[t].pc = "download"
            /\ unit[t].download \in DownloadIds
            /\ Downloads[unit[t].download].project_name = ProjectName(t[2])
            /\ \A i \in 1..Len(ProjectVersions(t[2])) :
                  ~VersionLess(Downloads[unit[t].download].project_version,
                               ProjectVersions(t[2])[i])
            /\ \A r \in (files' \ files) \cup (files \ files') :
                  r.download_name = unit[t].download
            /\ \A d \in DownloadIds \ {unit[t].download} : indexed'[d] = indexed[d]]_vars

\* C31 witness: a project with an older version and two downloads of its
\* latest version has been crawled: one download of the latest version
\* has the status 'yes' and rows, the two others have neither.
C31_Witness ==
    \E d \in DownloadIds :
       /\ indexed[d] = "yes" /\ FilesOf(d) # {}
       /\ \E o \in DownloadIds \ {d} :
             /\ Downloads[o].project_name = Downloads[d].project_name
             /\ Downloads[o].project_version = Downloads[d].project_version
             /\ indexed[o] = NULL /\ FilesOf(o) = {}
       /\ \E o \in DownloadIds :
             /\ Downloads[o].project_name = Downloads[d].project_name
             /\ VersionLess(Downloads[o].project_version, Downloads[d].project_version)
             /\ indexed[o] = NULL /\ FilesOf(o) = {}

\* C32: a step in which an attempt of a unit ends with an exception (the
\* wrapper logs it and calls again, or the exception of the last attempt
\* leaves the unit) changes neither the files table nor any status.
C32_FailedAttemptCommitsNothing ==
    [][(\E t \in Tasks :
           /\ unit[t].pc = "download"
           /\ \/ unit'[t].logged = unit[t].logged + 1
              \/ unit'[t].pc = "done" /\ unit'[t].exc # "") =>
         (files' = files /\ indexed' = indexed)]_vars

\* C32 witness: the last attempt of a unit ended with an exception of the
\* introspection after rows had been inserted in its transaction, and its
\* download has no row and no status.
C32_Witness ==
    \E t \in Tasks :
       /\ unit[t].pc = "done" /\ unit[t].exc # "" /\ unit[t].staged > 0
       /\ unit[t].attempt = Retries
       /\ FilesOf(unit[t].download) = {}
       /\ indexed[unit[t].download] = NULL

\* C33: a unit is suspended only in the download.  A step of a unit takes
\* it from its creation or from the download to the download of an attempt
\* or to its end: the check with the listing and the selection, the
\* introspection with its transaction and the delay before the next attempt
\* are inside one step, in which no other unit and no scheduler moves.
\* (The end of the process, which drops its pending tasks, is not a step of
\* a unit.)
C33_YieldsOnlyAtNetwork ==
    [][\A t \in Tasks :
          (/\ unit[t].pc \in {"ready", "download"}
           /\ unit'[t] # unit[t]
           /\ unit'[t].pc # "idle") =>
             /\ unit'[t].pc \in {"download", "done"}
             /\ \A o \in Tasks \ {t} : unit'[o] = unit[o]
             /\ sched' = sched]_vars

\* C33 witness: a unit is in the download of its second attempt, after an
\* exception, the delay, the check and the selection, while another unit
\* of the same scheduler is still in the download of its first attempt.
C33_Witness ==
    \E t, o \in Tasks :
       /\ t # o /\ t[1] = o[1]
       /\ unit[t].pc = "download" /\ unit[t].attempt = 2 /\ unit[t].logged = 1
       /\ unit[o].pc = "download" /\ unit[o].attempt = 1

(***************************************************************************)
(* The crawler under the scheduling of the event loop: a callback that is  *)
(* ready is run, a download ends (with the body or with an exception, at   *)
(* the latest by the timeouts of the session, lines 299-303), and amain    *)
(* is resumed when a task is done.  Running the crawler again is left to   *)
(* the operator and is not forced.                                         *)
(***************************************************************************)
SpecFair ==
    /\ Spec
    /\ WF_vars(\/ \E c \in Crawlers : Start(c) \/ Poll(c)
               \/ \E t \in Tasks : RunTask(t) \/ DownloadError(t) \/ DownloadDone(t))

\* C34: a scheduler that has been started returns unless a unit raises;
\* when it has returned, every pair of the iteration has been run and its
\* result taken, each counted once; and a task is only ever made for a
\* pair that has none yet in this process.
C34_SchedulerCompletes ==
    /\ \A c \in Crawlers :
          (sched[c].pc = "start") ~>
             (sched[c].pc = "returned" \/ \E p \in Projects : unit[<<c, p>>].exc # "")
    /\ [](\A c \in Crawlers :
            sched[c].pc = "returned" =>
               LET backlog == Backlog(sched[c].start_from)
               IN /\ \A i \in 1..Len(backlog) : unit[<<c, backlog[i]>>].pc = "polled"
                  /\ sched[c].tasks = {}
                  /\ sched[c].done_projects =
                        Cardinality({p \in Projects : p < sched[c].start_from}) + Len(backlog))
    /\ [][\A t \in Tasks :
             (unit'[t].pc = "ready" /\ unit[t].pc # "ready") => unit[t].pc = "idle"]_vars

\* C34 witness: the scheduler has returned from a backlog longer than the
\* ceiling, so that tasks were admitted after a poll.
C34_Witness ==
    /\ sched[1].pc = "returned"
    /\ Len(Backlog(sched[1].start_from)) > CONCURRENT_REQUESTS
    /\ \A p \in Projects : unit[<<1, p>>].pc = "polled"

\* C35: the outcome of the introspection of an archive (result or
\* exception, and the rows committed) is the same for every order in which
\* its members can be enumerated.
C35_OrderIndependent ==
    probe.kind = "archive" =>
       \A order \in OrdersOf(ProbeMode, probe.members) :
          LET outcome == Introspect(Loop(order, ProbeMode, 0, ProbeProject, {}, {}, {}))
          IN /\ outcome.result = probe.result
             /\ outcome.exc = probe.exc
             /\ CommittedRows(outcome) = probe.rows

\* C36: the introspection of an archive that can be read never ends with
\* the violation of the primary key of the files table: no two rows with
\* the same name are inserted for one download.
C36_NoKeyCollision ==
    probe.kind = "archive" => probe.exc # "sqlalchemy.IntegrityError"

\* C37: in the python_imports table, the rows of one project all carry the
\* same version and the same download; that download is a download of the
\* project and of that version, and its status is 'yes'.
C37_GuessesFromOneDownload ==
    \A p \in Projects :
       \A r, s \in ImportsOf(imports, p) :
          /\ r.deduced_from_project_version = s.deduced_from_project_version
          /\ r.deduced_from_download_name = s.deduced_from_download_name
          /\ Downloads[r.deduced_from_download_name].project_name = ProjectName(p)
          /\ Downloads[r.deduced_from_download_name].project_version =
                r.deduced_from_project_version
          /\ indexed[r.deduced_from_download_name] = "yes"

\* C37 witness: the guesser has committed two rows for the latest version
\* of a project that also has a download of an older version with the
\* status 'yes', and has ended its second sweep.
C37_Witness ==
    /\ guesser.pc = "off" /\ guesser.sweeps = 2
    /\ \E p \in Projects :
          /\ Cardinality(ImportsOf(imports, p)) >= 2
          /\ \A r \in ImportsOf(imports, p) :
                r.deduced_from_project_version = LatestVersion(ProjectVersions(p))
          /\ \E d \in DownloadIds :
                /\ Downloads[d].project_name = ProjectName(p)
                /\ Downloads[d].project_version # LatestVersion(ProjectVersions(p))
                /\ indexed[d] = "yes"

(***************************************************************************)
(* The thread-pool crawler of filesdb/index.py, on its own store.  The     *)
(* workers of the pool share one sqlite3 connection, opened with           *)
(* check_same_thread=False, and a lock; a connection has one transaction,  *)
(* so db.commit() makes durable every statement executed on it so far, by  *)
(* whichever thread.  Each worker processes one project (worker w the      *)
(* project w); a step is one block under the lock, or the code between     *)
(* two blocks.  store is the committed files table, conn the table as the  *)
(* connection sees it (store with the statements not yet committed).  The  *)
(* archive of a project is the list of what the loop of process_archive    *)
(* does at each member: "file" (process_file inserts a row), "wrong" (the  *)
(* return of the top-level checks), "bad" (TarError or BadZipFile, caught  *)
(* at line 341).                                                           *)
(***************************************************************************)
Workers == {1, 2}

IndexArchives == {<<"file", "file">>, <<"file", "wrong", "file">>, <<"file", "bad", "file">>}

\* the rows of the files table of project p that were committed by the
\* previous run
OldFiles(p) == {[project |-> p, filename |-> 0]}

InitIndex ==
    /\ probe \in
         {[kind |-> "index",
           store |-> UNION {OldFiles(p) : p \in Workers},
           conn |-> UNION {OldFiles(p) : p \in Workers},
           worker |-> ws] :
            ws \in [Workers ->
                      {[pc |-> "start", how |-> h, archive |-> <<>>, i |-> 1] :
                          h \in {"no releases", "up to date"}}
                      \cup {[pc |-> "start", how |-> "stale", archive |-> a, i |-> 1] :
                               a \in IndexArchives}]}
    /\ indexed = [d \in DownloadIds |-> NULL]
    /\ files = {}
    /\ imports = {}
    /\ guesser = GuesserOff
    /\ sched = [c \in Crawlers |-> Off]
    /\ unit = [t \in Tasks |-> Idle]
    /\ faults = 0
    /\ tmpdirs = {}

\* index.py lines 143-264, the steps other than the loop over the members
process_project(w) ==
    LET me == probe.worker[w]
    IN /\ probe.kind = "index"
       /\ \/ \* lines 162-182: no release; the project row is upserted and committed
             /\ me.pc = "start" /\ me.how = "no releases"
             /\ probe' = [probe EXCEPT !.worker[w].pc = "done", !.store = probe.conn]
          \/ \* lines 211-213
             /\ me.pc = "start" /\ me.how = "up to date"
             /\ probe' = [probe EXCEPT !.worker[w].pc = "done"]
          \/ \* lines 216-237: the rows of the project are deleted, without a commit
             /\ me.pc = "start" /\ me.how = "stale"
             /\ probe' = [probe EXCEPT !.worker[w].pc = "archive",
                             !.conn = {r \in probe.conn : r.project # w}]
          \/ \* line 242: url_get raises after its attempts; the exception leaves
             \* process_project
             /\ me.pc = "archive" /\ me.i = 1
             /\ probe' = [probe EXCEPT !.worker[w].pc = "raised"]
          \/ \* lines 256-264: the project row is inserted and committed
             /\ me.pc = "update"
             /\ probe' = [probe EXCEPT !.worker[w].pc = "done", !.store = probe.conn]
       /\ UNCHANGED <<indexed, files, sched, unit, faults, tmpdirs, imports, guesser>>

\* index.py lines 276-385: one turn of the loop of process_archive, with
\* the insert of process_file under the lock; process_archive returns
\* after the last member, at a member of the wrong structure and when the
\* archive cannot be read
index_process_archive(w) ==
    LET me == probe.worker[w]
    IN /\ probe.kind = "index"
       /\ me.pc = "archive"
       /\ IF me.i <= Len(me.archive) /\ me.archive[me.i] = "file"
          THEN probe' = [probe EXCEPT !.worker[w].i = me.i + 1,
                            !.conn = probe.conn \cup {[project |-> w, filename |-> me.i]}]
          ELSE probe' = [probe EXCEPT !.worker[w].pc = "update"]
       /\ UNCHANGED <<indexed, files, sched, unit, faults, tmpdirs, imports, guesser>>

SpecIndex ==
    InitIndex /\ [][\E w \in Workers : process_project(w) \/ index_process_archive(w)]_vars

\* the rows of the archive of worker w when all of it is processed
NewFiles(w) ==
    LET archive == probe.worker[w].archive
    IN IF \A i \in 1..Len(archive) : archive[i] = "file"
       THEN {[project |-> w, filename |-> i] : i \in 1..Len(archive)}
       ELSE {}

\* C38: in the committed store of the thread-pool crawler, the files of a
\* project are the complete set of the previous run or the complete set of
\* its new archive (no row when the archive has the wrong structure or
\* cannot be read).
C38_NoPartialFileSet ==
    probe.kind = "index" =>
       \A p \in Workers :
          {r \in probe.store : r.project = p} \in {OldFiles(p), NewFiles(p)}

(***************************************************************************)
(* read_bigquery.read_data, on its own, over an iterator of n rows.  The   *)
(* three BatchInserter objects are named by their tables; values is the    *)
(* list self.values of each, log the list of the batches executed on the   *)
(* connection, in order.  Row number i of the input names one of `names`   *)
(* projects; the row passed to an inserter is written with its number,     *)
(* which stands for the fields other than the project name.                *)
(***************************************************************************)
BATCH_SIZE == 500

\* lines 133-146: the dependencies given to each BatchInserter
dependencies(t) == IF t = "projects" THEN <<>> ELSE <<"projects">>

\* lines 56-62: flush() of each inserter of the list ts, in order
RECURSIVE flush(_, _)
flush(s, ts) ==
    IF ts = <<>> THEN s
    ELSE LET t == Head(ts)
             s1 == IF s.values[t] = <<>> THEN s
                   ELSE LET s2 == flush(s, dependencies(t))
                        IN [s2 EXCEPT !.values[t] = <<>>,
                               !.log = Append(s2.log, [table |-> t, rows |-> s2.values[t]])]
         IN flush(s1, Tail(ts))

\* a faulty variant of insert: the whole list is executed when it exceeds
\* BATCH_SIZE
InsertWhole(s, t, row) ==
    LET appended == Append(s.values[t], row)
    IN IF Len(appended) > BATCH_SIZE
       THEN LET s2 == flush([s EXCEPT !.values[t] = <<>>], dependencies(t))
            IN [s2 EXCEPT !.log = Append(s2.log, [table |-> t, rows |-> appended])]
       ELSE [s EXCEPT !.values[t] = appended]

\* lines 46-54
insert(s, t, row) ==
    LET appended == Append(s.values[t], row)
    IN IF Len(appended) > BATCH_SIZE
       THEN LET values == SubSeq(appended, 1, BATCH_SIZE)
                s1 == [s EXCEPT !.values[t] = SubSeq(appended, BATCH_SIZE + 1, Len(appended))]
                s2 == flush(s1, dependencies(t))
            IN [s2 EXCEPT !.log = Append(s2.log, [table |-> t, rows |-> values])]
       ELSE [s EXCEPT !.values[t] = appended]

InitBigQuery ==
    /\ probe \in {[kind |-> "bigquery", n |-> n, names |-> names, i |-> 1,
                   pc |-> IF n = 0 THEN "flush" ELSE "insert", t |-> 1,
                   values |-> [t \in {"projects", "versions", "downloads"} |-> <<>>],
                   log |-> <<>>] :
                     n \in {0, 1, BATCH_SIZE, BATCH_SIZE + 1, BATCH_SIZE + 2, 2 * BATCH_SIZE + 3},
                     names \in {1, 7}}
    /\ indexed = [d \in DownloadIds |-> NULL]
    /\ files = {}
    /\ imports = {}
    /\ guesser = GuesserOff
    /\ sched = [c \in Crawlers |-> Off]
    /\ unit = [t \in Tasks |-> Idle]
    /\ faults = 0
    /\ tmpdirs = {}

\* lines 147-190: one call of insert in the loop over the rows, or one of
\* the three calls of flush after it
read_data ==
    LET inserters == <<"projects", "versions", "downloads">>
        row == [i |-> probe.i, project_name |-> probe.i % probe.names]
    IN /\ probe.kind = "bigquery"
       /\ \/ /\ probe.pc = "insert"
             /\ LET s == insert(probe, inserters[probe.t], row)
                IN probe' = IF probe.t < Len(inserters) THEN [s EXCEPT !.t = probe.t + 1]
                            ELSE IF probe.i < probe.n THEN [s EXCEPT !.t = 1, !.i = probe.i + 1]
                            ELSE [s EXCEPT !.t = 1, !.i = probe.i + 1, !.pc = "flush"]
          \/ /\ probe.pc = "flush"
             /\ LET s == flush(probe, <<inserters[probe.t]>>)
                IN probe' = IF probe.t < Len(inserters) THEN [s EXCEPT !.t = probe.t + 1]
                            ELSE [s EXCEPT !.pc = "done"]
       /\ UNCHANGED <<indexed, files, sched, unit, faults, tmpdirs, imports, guesser>>

SpecBigQuery == InitBigQuery /\ [][read_data]_vars

\* the rows of table t in the batches of the log, in the order of execution
RECURSIVE ExecutedRows(_, _)
ExecutedRows(log, t) ==
    IF log = <<>> THEN <<>>
    ELSE IF log[1].table = t THEN log[1].rows \o ExecutedRows(Tail(log), t)
    ELSE ExecutedRows(Tail(log), t)

\* C39: a batch that is executed has at most BATCH_SIZE rows, and if it is
\* a batch of versions or downloads, the project of each of its rows is in
\* a batch of projects executed before it; when read_data has made its
\* last flush, the rows executed for each table are the rows of the input,
\* each once.
C39_BatchesInOrder ==
    /\ [][probe.kind = "bigquery" =>
            \A k \in (Len(probe.log) + 1)..Len(probe'.log) :
               LET batch == probe'.log[k]
                   before == ExecutedRows(SubSeq(probe'.log, 1, k - 1), "projects")
               IN /\ Len(batch.rows) <= BATCH_SIZE
                  /\ batch.table # "projects" =>
                        {batch.rows[j].project_name : j \in 1..Len(batch.rows)}
                           \subseteq {before[j].project_name : j \in 1..Len(before)}]_vars
    /\ []((probe.kind = "bigquery" /\ probe.pc = "done") =>
            \A t \in {"projects", "versions", "downloads"} :
               /\ probe.values[t] = <<>>
               /\ ExecutedRows(probe.log, t) =
                     [i \in 1..probe.n |-> [i |-> i, project_name |-> i % probe.names]])

\* C39 witness: read_data has ended on an input of more than two batches;
\* a batch of BATCH_SIZE versions was executed by insert and a shorter
\* one by the last flush.
C39_Witness ==
    /\ probe.kind = "bigquery" /\ probe.pc = "done" /\ probe.n > 2 * BATCH_SIZE
    /\ \E k, l \in 1..Len(probe.log) :
          /\ probe.log[k].table = "versions" /\ Len(probe.log[k].rows) = BATCH_SIZE
          /\ probe.log[l].table = "versions" /\ Len(probe.log[l].rows) < BATCH_SIZE

====
